---- MODULE Spec2Model ----
(***************************************************************************)
(* DynamoDBSaver (src/src/services/sns.ts, class DynamoDBSaver): the       *)
(* LangGraph checkpointer backed by the two DynamoDB tables Checkpoints    *)
(* (partition key thread_id, sort key checkpoint_id) and CheckpointWrites  *)
(* (partition key thread_id_checkpoint_id_checkpoint_ns, sort key          *)
(* task_index).                                                            *)
(* Further sections: putWrites request by request (SpecB), the retention   *)
(* functions of the SQL deployment (SpecR), and the LongTermMemoryManager  *)
(* of src/src/memory.ts: its operations one at a time (SpecM), one run of  *)
(* the conversation graph on a new store (SpecG, FairG), an embedding      *)
(* compressed and decompressed (SpecC), the cleanup of the first load      *)
(* (SpecK), the turns of a chat with the calls they leave detached         *)
(* (SpecI), and the messages of the chats in src/src/bot.ts (SpecA).       *)
(***************************************************************************)
EXTENDS Integers, Sequences, FiniteSets, TLC

(* ------------------------------ bounds --------------------------------- *)
Threads == {"t1", "t2"}
Namespaces == {"", "sub"}
CheckpointIds == {1, 2}
Payloads == {1, 2}
Kinds == {"json", "bytes"}
TaskIds == {<<97>>, <<98>>}
Channels == <<"ch0", "ch1">>
MaxPuts == 2
MaxPutWrites == 2
MaxWrites == 11
WriteLens == {2, MaxWrites}
Limits == {0, 1}

NoId == 0

(* ------------------- strings as sequences of char codes ---------------- *)
separator == <<58, 58, 58>>

RECURSIVE Digits(_)
Digits(n) == IF n < 10 THEN <<48 + n>> ELSE Digits(n \div 10) \o <<48 + (n % 10)>>

RECURSIVE StrLess(_, _)
StrLess(a, b) ==
  IF a = <<>> THEN b # <<>>
  ELSE IF b = <<>> THEN FALSE
  ELSE IF Head(a) # Head(b) THEN Head(a) < Head(b)
  ELSE StrLess(Tail(a), Tail(b))

IsPrefix(p, s) == Len(p) <= Len(s) /\ SubSeq(s, 1, Len(p)) = p

RECURSIVE SplitFirst(_, _)
SplitFirst(s, acc) ==
  IF s = <<>> \/ IsPrefix(separator, s) THEN acc
  ELSE SplitFirst(Tail(s), Append(acc, Head(s)))

(* ------------------------------ serde ---------------------------------- *)
Bytes(body) == [i \in 1..Len(body) |-> 48 + body[i]]
Unbytes(bytes) == [i \in 1..Len(bytes) |-> bytes[i] - 48]

dumpsTyped(v) == <<v.kind, Bytes(v.body)>>
loadsTyped(type, bytes) == [kind |-> type, body |-> Unbytes(bytes)]
UndefinedValue == [kind |-> "undefined", body |-> <<>>]
loadAttr(type, item, name) ==
  IF name \in DOMAIN item THEN loadsTyped(type, item[name]) ELSE UndefinedValue

Checkpoint(id, d) == [kind |-> "json", body |-> <<id, d>>]
CheckpointIdOf(cp) == cp.body[1]
Metadata(k, d) == [kind |-> k, body |-> <<d>>]

VARIABLES checkpoints, checkpointWrites, last, putLog, writeLog, nPuts, nPutWrites,
          batches, requests, awaited,
          pg_checkpoints, checkpoint_writes, checkpoint_blobs, run, prev, nRuns,
          memory, memoryLoaded, file, clock, lastM, relLog, nOps,
          initialized, node, state, task, lastG,
          embeddingIn, compressedOut, decompressedOut,
          botStatus, queue, chatCall, addSquares, chatLog,
          turn, ops, io
saverVars == <<checkpoints, checkpointWrites, last, putLog, writeLog, nPuts, nPutWrites>>
\* the requests of a putWrites call that is under way
fanVars == <<batches, requests, awaited>>
\* the tables of the SQL deployment and the retention call under way
pgVars == <<pg_checkpoints, checkpoint_writes, checkpoint_blobs, run, prev, nRuns>>
\* the LongTermMemoryManager, its file and its clock
memVars == <<memory, memoryLoaded, file, clock, lastM, relLog, nOps>>
\* one run of the conversation graph and the work it leaves detached
graphVars == <<initialized, node, state, task, lastG>>
\* an embedding on its way through compressEmbedding and decompressEmbedding
embVars == <<embeddingIn, compressedOut, decompressedOut>>
\* the chats of the bot, the messages it has queued and the calls under way
botVars == <<botStatus, queue, chatCall, addSquares, chatLog>>
\* the turns of one chat and the calls on its store that are under way
turnVars == <<turn, ops, io>>
lateVars == <<botVars, turnVars>>
otherVars == <<graphVars, embVars, lateVars>>
vars == <<saverVars, fanVars, pgVars, memVars, otherVars>>
\* what the operations of the saver never touch
notSaver == <<fanVars, pgVars, memVars, otherVars>>

\* no putWrites call is under way
NoCall == batches = <<>> /\ requests = <<>> /\ awaited = "none"

\* no LongTermMemoryManager has been constructed
NoMemory ==
  /\ memory = [personal |-> <<>>, relationships |-> <<>>, events |-> <<>>,
               preferences |-> <<>>]
  /\ memoryLoaded = FALSE
  /\ file = "absent"
  /\ clock = 0
  /\ lastM = [op |-> "init"]
  /\ relLog = <<>>
  /\ nOps = 0

\* no graph run has been started and no embedding is being converted
NoGraph ==
  /\ initialized = FALSE
  /\ node = "idle"
  /\ state = [messages |-> <<>>]
  /\ task = [pc |-> "none"]
  /\ lastG = [op |-> "init"]

NoEmbedding ==
  /\ embeddingIn = <<>>
  /\ compressedOut = <<>>
  /\ decompressedOut = <<>>

\* the bot has received no message
NoBot ==
  /\ botStatus = <<>>
  /\ queue = <<>>
  /\ chatCall = [pc |-> "idle"]
  /\ addSquares = {}
  /\ chatLog = <<>>

\* no turn has begun and no call on the store is under way
NoTurn ==
  /\ turn = [pc |-> "idle", n |-> 0, toolCallCount |-> 0, awaits |-> 0]
  /\ ops = <<>>
  /\ io = [reads |-> 0, cleanups |-> 0, failed |-> 0]

\* no retention function has been called, the SQL tables are empty
NoRun ==
  /\ pg_checkpoints = {}
  /\ checkpoint_writes = {}
  /\ checkpoint_blobs = [exists |-> FALSE, rows |-> {}]
  /\ run = [pc |-> "idle"]
  /\ prev = [status |-> "none"]
  /\ nRuns = 0

(* ------------------------- DynamoDB primitives ------------------------- *)
SameCheckpointKey(i, j) ==
  i.thread_id = j.thread_id /\ i.checkpoint_id = j.checkpoint_id

\* PutCommand: the item replaces the item of its key
PutItem(table, item) ==
  {i \in table : ~SameCheckpointKey(i, item)} \cup {item}

SameWriteKey(i, j) == i.pk = j.pk /\ i.task_index = j.task_index

RECURSIVE SortDesc(_)
SortDesc(S) ==
  IF S = {} THEN <<>>
  ELSE LET m == CHOOSE i \in S : \A j \in S : j.checkpoint_id <= i.checkpoint_id
       IN <<m>> \o SortDesc(S \ {m})

RECURSIVE SortBySk(_)
SortBySk(S) ==
  IF S = {} THEN <<>>
  ELSE LET m == CHOOSE i \in S : \A j \in S \ {i} : StrLess(i.task_index, j.task_index)
       IN <<m>> \o SortBySk(S \ {m})

Take(s, n) == IF n = 0 \/ Len(s) <= n THEN s ELSE SubSeq(s, 1, n)

RECURSIVE SelectItems(_, _)
SelectItems(s, nsFilter) ==
  IF s = <<>> THEN <<>>
  ELSE IF nsFilter.on /\ Head(s).checkpoint_ns # nsFilter.ns
       THEN SelectItems(Tail(s), nsFilter)
       ELSE <<Head(s)>> \o SelectItems(Tail(s), nsFilter)

QueryError == [error |-> TRUE, Items |-> <<>>]

\* Query on Checkpoints, ScanIndexForward false: the key condition selects
\* the thread (and ids below `before` when the expression says so), Limit
\* cuts the sorted page, and the filter expression is applied to that page.
QueryCheckpoints(q) ==
  IF q.exprNames # q.valueNames THEN QueryError
  ELSE LET part == {i \in checkpoints :
                      /\ i.thread_id = q.thread_id
                      /\ (q.before # NoId => i.checkpoint_id < q.before)}
       IN [error |-> FALSE,
           Items |-> SelectItems(Take(SortDesc(part), q.limit), q.filter)]

(* ------------------------------ getTuple ------------------------------- *)
Truthy(ns) == ns # ""

GetCheckpoint(thread_id, checkpoint_id) ==
  {i \in checkpoints : i.thread_id = thread_id /\ i.checkpoint_id = checkpoint_id}

LatestQuery(thread_id, checkpoint_ns) ==
  [thread_id |-> thread_id,
   before |-> NoId,
   exprNames |-> {":thread_id"} \cup
                 (IF Truthy(checkpoint_ns) THEN {":checkpoint_ns"} ELSE {}),
   valueNames |-> {":thread_id"} \cup
                  (IF Truthy(checkpoint_ns) THEN {":checkpoint_ns"} ELSE {}),
   filter |-> [on |-> Truthy(checkpoint_ns), ns |-> checkpoint_ns],
   limit |-> 1]

\* getItem: the set holding the item found, empty when there is none
getItem(thread_id, checkpoint_id, checkpoint_ns) ==
  IF checkpoint_id # NoId
  THEN GetCheckpoint(thread_id, checkpoint_id)
  ELSE LET r == QueryCheckpoints(LatestQuery(thread_id, checkpoint_ns))
       IN IF Len(r.Items) = 0 THEN {} ELSE {r.Items[1]}

getWritePk(thread_id, checkpoint_id, checkpoint_ns) ==
  <<thread_id, checkpoint_id, checkpoint_ns>>

\* getWriteSk without the sequence index: every write of a task shares one key
getWriteSkTaskOnly(taskId, index) == taskId \o separator

getWriteSk(taskId, index) == taskId \o separator \o Digits(index)

\* Query on CheckpointWrites by partition key, ascending sort key
QueryWrites(pk) == SortBySk({w \in checkpointWrites : w.pk = pk})

PendingWrites(items) ==
  [k \in 1..Len(items) |->
     <<SplitFirst(items[k].task_index, <<>>),
       items[k].channel,
       loadAttr(items[k].type, items[k], "value")>>]

\* parentConfig built from the item's own checkpoint_id
ParentConfigOwnId(item) ==
  IF item.checkpoint_id # NoId
  THEN [present |-> TRUE,
        thread_id |-> item.thread_id,
        checkpoint_ns |-> item.checkpoint_ns,
        checkpoint_id |-> item.checkpoint_id]
  ELSE [present |-> FALSE]

ParentConfig(item) ==
  IF item.parent_checkpoint_id # NoId
  THEN [present |-> TRUE,
        thread_id |-> item.thread_id,
        checkpoint_ns |-> item.checkpoint_ns,
        checkpoint_id |-> item.parent_checkpoint_id]
  ELSE [present |-> FALSE]

TupleOf(item) ==
  [status |-> "ok",
   config |-> [thread_id |-> item.thread_id,
               checkpoint_ns |-> item.checkpoint_ns,
               checkpoint_id |-> item.checkpoint_id],
   checkpoint |-> loadsTyped(item.type, item.checkpoint),
   metadata |-> loadsTyped(item.type, item.metadata),
   parentConfig |-> ParentConfig(item)]

Undefined == [status |-> "undefined"]

getTuple(thread_id, checkpoint_ns, checkpoint_id) ==
  LET found == getItem(thread_id, checkpoint_id, checkpoint_ns)
  IN IF found = {} THEN Undefined
     ELSE LET item == CHOOSE i \in found : TRUE
              threadCheckpointNS ==
                getWritePk(item.thread_id, item.checkpoint_id, item.checkpoint_ns)
          IN [status |-> "ok",
              config |-> TupleOf(item).config,
              checkpoint |-> TupleOf(item).checkpoint,
              metadata |-> TupleOf(item).metadata,
              parentConfig |-> TupleOf(item).parentConfig,
              pendingWrites |-> PendingWrites(QueryWrites(threadCheckpointNS))]

(* -------------------------------- list --------------------------------- *)
ListQuery(thread_id, limit, before) ==
  [thread_id |-> thread_id,
   before |-> before,
   exprNames |-> {":thread_id"} \cup
                 (IF before # NoId THEN {":before_checkpoint_id"} ELSE {}),
   valueNames |-> {":thread_id"} \cup
                  (IF before # NoId THEN {":beforeCheckpointId"} ELSE {}),
   filter |-> [on |-> FALSE, ns |-> ""],
   limit |-> limit]

list(thread_id, checkpoint_ns, limit, before) ==
  LET r == QueryCheckpoints(ListQuery(thread_id, limit, before))
  IN IF r.error THEN [status |-> "error", items |-> <<>>]
     ELSE [status |-> "ok",
           items |-> [k \in 1..Len(r.Items) |-> TupleOf(r.Items[k])]]


Init ==
  /\ checkpoints = {}
  /\ checkpointWrites = {}
  /\ last = [op |-> "init"]
  /\ putLog = [k \in Threads \X CheckpointIds |-> [written |-> FALSE]]
  /\ writeLog = {}
  /\ nPuts = 0
  /\ nPutWrites = 0
  /\ NoCall
  /\ NoBot
  /\ NoTurn
  /\ NoGraph
  /\ NoEmbedding
  /\ NoRun
  /\ NoMemory
(* ------------------------------- actions ------------------------------- *)
ItemsOf(thread_id, checkpoint_ns) ==
  {i \in checkpoints : i.thread_id = thread_id /\ i.checkpoint_ns = checkpoint_ns}

ItemsOfThread(thread_id) == {i \in checkpoints : i.thread_id = thread_id}

NewestInThread(thread_id, id) ==
  \A i \in ItemsOfThread(thread_id) : i.checkpoint_id <= id

\* put without the comparison of the two type tags
TypesAgreeUnchecked(checkpointType, metadataType) == TRUE

TypesAgree(checkpointType, metadataType) == checkpointType = metadataType

CheckpointItem(thread_id, checkpoint_ns, parent, checkpoint, metadata) ==
  [thread_id |-> thread_id,
   checkpoint_ns |-> checkpoint_ns,
   checkpoint_id |-> CheckpointIdOf(checkpoint),
   parent_checkpoint_id |-> parent,
   type |-> dumpsTyped(checkpoint)[1],
   checkpoint |-> dumpsTyped(checkpoint)[2],
   metadata |-> dumpsTyped(metadata)[2]]

put(thread_id, checkpoint_ns, parent, checkpoint, metadata) ==
  LET checkpointType == dumpsTyped(checkpoint)[1]
      metadataType == dumpsTyped(metadata)[1]
      id == CheckpointIdOf(checkpoint)
      call == [op |-> "put", thread_id |-> thread_id, checkpoint_ns |-> checkpoint_ns,
               parent |-> parent, checkpoint |-> checkpoint, metadata |-> metadata]
  IN /\ UNCHANGED <<checkpointWrites, writeLog, nPutWrites>>
     /\ UNCHANGED notSaver
     /\ IF ~TypesAgree(checkpointType, metadataType)
        THEN /\ last' = [op |-> "putFailed", checkpoint |-> checkpoint,
                          metadata |-> metadata]
             /\ UNCHANGED <<checkpoints, putLog, nPuts>>
        ELSE /\ nPuts' = nPuts + 1
             /\ checkpoints' =
                  PutItem(checkpoints,
                          CheckpointItem(thread_id, checkpoint_ns, parent,
                                         checkpoint, metadata))
             /\ putLog' = [putLog EXCEPT ![<<thread_id, id>>] =
                             [written |-> TRUE, checkpoint_ns |-> checkpoint_ns,
                              parent |-> parent, checkpoint |-> checkpoint,
                              metadata |-> metadata]]
             /\ last' = call

\* The ids a caller passes are time-ordered (uuid6): a put never carries an
\* id older than one the thread already holds.
Put ==
  /\ nPuts < MaxPuts
  /\ \E thread_id \in Threads, checkpoint_ns \in Namespaces, id \in CheckpointIds,
        parent \in ({NoId} \cup CheckpointIds), d \in Payloads, k \in Kinds :
       /\ parent # id
       /\ NewestInThread(thread_id, id)
       /\ put(thread_id, checkpoint_ns, parent, Checkpoint(id, d), Metadata(k, d))

GetTuple ==
  \E thread_id \in Threads, checkpoint_ns \in Namespaces,
     checkpoint_id \in ({NoId} \cup CheckpointIds) :
       /\ last' = [op |-> "getTuple", thread_id |-> thread_id,
                   checkpoint_ns |-> checkpoint_ns, checkpoint_id |-> checkpoint_id,
                   out |-> getTuple(thread_id, checkpoint_ns, checkpoint_id)]
       /\ UNCHANGED <<checkpoints, checkpointWrites, putLog, writeLog, nPuts, nPutWrites>>
       /\ UNCHANGED notSaver

List ==
  \E thread_id \in Threads, checkpoint_ns \in Namespaces, limit \in Limits,
     before \in ({NoId} \cup CheckpointIds) :
       /\ last' = [op |-> "list", thread_id |-> thread_id,
                   checkpoint_ns |-> checkpoint_ns, limit |-> limit, before |-> before,
                   out |-> list(thread_id, checkpoint_ns, limit, before)]
       /\ UNCHANGED <<checkpoints, checkpointWrites, putLog, writeLog, nPuts, nPutWrites>>
       /\ UNCHANGED notSaver

(* ------------------------------ putWrites ------------------------------ *)
BatchSize == 25

WriteItem(thread_id, checkpoint_ns, checkpoint_id, taskId, write, index) ==
  [pk |-> getWritePk(thread_id, checkpoint_id, checkpoint_ns),
   task_index |-> getWriteSk(taskId, index),
   channel |-> write[1],
   type |-> dumpsTyped(write[2])[1],
   valu |-> dumpsTyped(write[2])[2]]

pendingWriteItems(thread_id, checkpoint_ns, checkpoint_id, taskId, writes) ==
  [k \in 1..Len(writes) |->
     WriteItem(thread_id, checkpoint_ns, checkpoint_id, taskId, writes[k], k - 1)]

Batches(items) ==
  [b \in 1..((Len(items) + BatchSize - 1) \div BatchSize) |->
     SubSeq(items, (b - 1) * BatchSize + 1,
            IF b * BatchSize < Len(items) THEN b * BatchSize ELSE Len(items))]

\* BatchWriteCommand: every PutRequest of the batch replaces the item of its key
BatchWrite(table, batch) ==
  {w \in table : \A k \in 1..Len(batch) : ~SameWriteKey(w, batch[k])}
    \cup {batch[k] : k \in 1..Len(batch)}

RECURSIVE SendAll(_, _)
SendAll(table, bs) ==
  IF bs = <<>> THEN table
  ELSE SendAll(BatchWrite(table, Head(bs)), Tail(bs))

TaskItems(pk, taskId) ==
  {w \in checkpointWrites : w.pk = pk /\ SplitFirst(w.task_index, <<>>) = taskId}

\* the write list most recently submitted for (pk, taskId), <<>> when none was
Submitted(pk, taskId) ==
  IF \E e \in writeLog : e.pk = pk /\ e.taskId = taskId
  THEN (CHOOSE e \in writeLog : e.pk = pk /\ e.taskId = taskId).writes
  ELSE <<>>

putWrites(thread_id, checkpoint_ns, checkpoint_id, taskId, writes) ==
  LET items == pendingWriteItems(thread_id, checkpoint_ns, checkpoint_id, taskId, writes)
      pk == getWritePk(thread_id, checkpoint_id, checkpoint_ns)
  IN /\ UNCHANGED <<checkpoints, putLog, nPuts>>
     /\ UNCHANGED notSaver
     /\ IF checkpoint_id = NoId
        THEN /\ last' = [op |-> "putWritesFailed"]
             /\ UNCHANGED <<checkpointWrites, writeLog, nPutWrites>>
        ELSE /\ checkpointWrites' = SendAll(checkpointWrites, Batches(items))
             /\ nPutWrites' = nPutWrites + 1
             /\ writeLog' = {e \in writeLog : ~(e.pk = pk /\ e.taskId = taskId)}
                              \cup {[pk |-> pk, taskId |-> taskId, writes |-> writes]}
             /\ last' = [op |-> "putWrites", thread_id |-> thread_id,
                         checkpoint_ns |-> checkpoint_ns,
                         checkpoint_id |-> checkpoint_id,
                         taskId |-> taskId, writes |-> writes,
                         previous |-> Submitted(pk, taskId)]

WriteList(n, s) ==
  [i \in 1..n |-> <<Channels[((s + i) % 2) + 1],
                    [kind |-> "json", body |-> <<((s + i) % 2) + 1>>]>>]

\* putWrites is called with the config of a checkpoint of a thread the store
\* knows, or with a config that carries no checkpoint_id.
PutWrites ==
  /\ nPutWrites < MaxPutWrites
  /\ \E c \in checkpoints, checkpoint_id \in ({NoId} \cup CheckpointIds),
        taskId \in TaskIds, n \in WriteLens, s \in 0..1 :
       putWrites(c.thread_id, c.checkpoint_ns, checkpoint_id, taskId, WriteList(n, s))

Next == Put \/ GetTuple \/ List

Spec == Init /\ [][Next]_vars

\* The pending-write operations, from the states in which one checkpoint is stored
InitW ==
  \E thread_id \in Threads, checkpoint_ns \in Namespaces, id \in CheckpointIds :
    LET cp == Checkpoint(id, 1)
        md == Metadata("json", 1)
    IN /\ checkpoints = {CheckpointItem(thread_id, checkpoint_ns, NoId, cp, md)}
       /\ checkpointWrites = {}
       /\ last = [op |-> "put", thread_id |-> thread_id, checkpoint_ns |-> checkpoint_ns,
                  parent |-> NoId, checkpoint |-> cp, metadata |-> md]
       /\ putLog = [k \in Threads \X CheckpointIds |->
                     IF k = <<thread_id, id>>
                     THEN [written |-> TRUE, checkpoint_ns |-> checkpoint_ns,
                           parent |-> NoId, checkpoint |-> cp, metadata |-> md]
                     ELSE [written |-> FALSE]]
       /\ writeLog = {}
       /\ nPuts = 1
       /\ nPutWrites = 0
       /\ NoCall
       /\ NoBot
       /\ NoTurn
       /\ NoGraph
       /\ NoEmbedding
       /\ NoRun
       /\ NoMemory

NextW == PutWrites \/ GetTuple

SpecW == InitW /\ [][NextW]_vars

(* ----------------- putWrites, one request at a time -------------------- *)
\* The same putWrites, seen request by request: the call sends one
\* BatchWriteCommand per batch without awaiting any, then awaits
\* Promise.all(requests). Each request settles on its own.
BatchLens == {1, BatchSize + 1, 2 * BatchSize + 1}

\* Promise.all over the settled states of its promises
PromiseAll(rs) ==
  IF \E b \in 1..Len(rs) : rs[b] = "rejected" THEN "rejected"
  ELSE IF \A b \in 1..Len(rs) : rs[b] = "fulfilled" THEN "resolved"
  ELSE "pending"

\* a promise settles once: the await keeps its first outcome
Await(now, rs) == IF now = "pending" THEN PromiseAll(rs) ELSE now

SendBatches ==
  /\ awaited = "none"
  /\ \E c \in checkpoints, checkpoint_id \in CheckpointIds, taskId \in TaskIds,
        n \in BatchLens, s \in 0..1 :
       LET items == pendingWriteItems(c.thread_id, c.checkpoint_ns, checkpoint_id,
                                      taskId, WriteList(n, s))
       IN /\ batches' = Batches(items)
          /\ requests' = [b \in 1..Len(Batches(items)) |-> "pending"]
          /\ awaited' = "pending"
  /\ UNCHANGED <<saverVars, pgVars, memVars, otherVars>>

BatchFulfilled ==
  \E b \in 1..Len(requests) :
    /\ requests[b] = "pending"
    /\ checkpointWrites' = BatchWrite(checkpointWrites, batches[b])
    /\ requests' = [requests EXCEPT ![b] = "fulfilled"]
    /\ awaited' = Await(awaited, requests')
    /\ UNCHANGED <<checkpoints, last, putLog, writeLog, nPuts, nPutWrites, batches>>
    /\ UNCHANGED <<pgVars, memVars, otherVars>>

BatchRejected ==
  \E b \in 1..Len(requests) :
    /\ requests[b] = "pending"
    /\ requests' = [requests EXCEPT ![b] = "rejected"]
    /\ awaited' = Await(awaited, requests')
    /\ UNCHANGED <<saverVars, batches, pgVars, memVars, otherVars>>

NextB == SendBatches \/ BatchFulfilled \/ BatchRejected

SpecB == InitW /\ [][NextB]_vars



(* ------------------- retention functions (SQL deployment) --------------- *)
\* cleanup_old_checkpoints and cleanup_checkpoints_by_age over the tables
\* checkpoints (here pg_checkpoints), checkpoint_writes and checkpoint_blobs.
\* Instants are milliseconds since the epoch.
MsPerDay == 86400000
MsPerSecond == 1000
Now == 3 * MsPerDay + 500
RetentionDays == {1, 2}
MaxRuns == 2

\* metadata->>'created_at' of a row: absent, the text of a number of
\* milliseconds, or the text of a timestamp
Formats == {"null", "millis", "iso"}
CreatedAt(format, at) ==
  IF format = "null" THEN [format |-> "null"] ELSE [format |-> format, at |-> at]

\* long before both cutoffs; 100 ms after the cutoff of one day; a second ago
Instants == <<MsPerDay, Now - MsPerDay + 100, Now - MsPerSecond>>

\* the checkpoints of one thread, oldest first: indices into Instants
ThreadHistories ==
  {<<>>} \cup {<<i>> : i \in 1..3}
         \cup {h \in {<<i, j>> : i, j \in 1..3} : h[1] <= h[2]}

CutoffTime(retention_days) == Now - retention_days * MsPerDay

Epoch == 0

\* (x)::TIMESTAMPTZ of the text x, NULL for NULL
AsTimestamptz(created_at) ==
  IF created_at.format = "null" THEN [null |-> TRUE]
  ELSE IF created_at.format = "iso" THEN [null |-> FALSE, at |-> created_at.at]
  ELSE [error |-> TRUE]

\* to_timestamp((x)::BIGINT / 1000): the division is an integer division
ToTimestampOfMillis(created_at) ==
  IF created_at.format = "null" THEN [null |-> TRUE]
  ELSE IF created_at.format = "millis"
  THEN [null |-> FALSE, at |-> (created_at.at \div 1000) * MsPerSecond]
  ELSE [error |-> TRUE]

IsError(v) == "error" \in DOMAIN v

Coalesce(v, default) == IF v.null THEN default ELSE v.at

ThreadsOf(table) == {r.thread_id : r \in table}

\* a DELETE that compares thread_id with one element of the array only
DeletedOfOne(table, threads) ==
  {r \in table : threads # {} /\ r.thread_id = CHOOSE t \in threads : TRUE}

\* the rows a DELETE ... WHERE thread_id = ANY(threads) removes
Deleted(table, threads) == {r \in table : r.thread_id \in threads}

\* the selection stopped after the first old thread
OldThreadsByAgeLimitOne(retention_days) ==
  LET old == {t \in ThreadsOf(pg_checkpoints) :
                ~\E c2 \in pg_checkpoints :
                   /\ c2.thread_id = t
                   /\ Coalesce(ToTimestampOfMillis(c2.created_at), Epoch)
                        >= CutoffTime(retention_days)}
  IN IF old = {} THEN {} ELSE {CHOOSE t \in old : TRUE}

\* lines 65-74: the threads none of whose checkpoints is at or after the cutoff
OldThreadsByAge(retention_days) ==
  {t \in ThreadsOf(pg_checkpoints) :
     ~\E c2 \in pg_checkpoints :
        /\ c2.thread_id = t
        /\ Coalesce(ToTimestampOfMillis(c2.created_at), Epoch)
             >= CutoffTime(retention_days)}

ByAgeCastFails ==
  \E c2 \in pg_checkpoints : IsError(ToTimestampOfMillis(c2.created_at))

Max(S) == CHOOSE x \in S : \A y \in S : y <= x

\* lines 27-37: the threads whose greatest created_at is before the cutoff
OldThreadsByMax(retention_days) ==
  {t \in ThreadsOf(pg_checkpoints) :
     Max({Coalesce(AsTimestamptz(c.created_at), Epoch) :
            c \in {r \in pg_checkpoints : r.thread_id = t}})
       < CutoffTime(retention_days)}

ByMaxCastFails ==
  \E c \in pg_checkpoints : IsError(AsTimestamptz(c.created_at))

Tables == [checkpoints |-> pg_checkpoints, writes |-> checkpoint_writes,
           blobs |-> checkpoint_blobs]

\* a failed call leaves the tables as they were when it started
Raise(fn, retention_days, before) ==
  /\ pg_checkpoints' = before.checkpoints
  /\ checkpoint_writes' = before.writes
  /\ checkpoint_blobs' = before.blobs
  /\ run' = [pc |-> "idle", fn |-> fn, retention_days |-> retention_days,
             status |-> "error", before |-> before]
  /\ prev' = [status |-> "error"]
  /\ nRuns' = nRuns + 1

Return(fn, retention_days, before, cp, wr, bl) ==
  /\ run' = [pc |-> "idle", fn |-> fn, retention_days |-> retention_days,
             status |-> "ok", before |-> before,
             checkpoints_deleted |-> cp, writes_deleted |-> wr, blobs_deleted |-> bl,
             after |-> IF run.pc = "idle" THEN prev ELSE run.after]
  /\ prev' = [status |-> "ok", fn |-> fn, retention_days |-> retention_days,
              before |-> before]
  /\ nRuns' = nRuns + 1

\* the statements of cleanup_checkpoints_by_age with the checkpoints deleted first
ByAgeOrderCheckpointsFirst == <<"checkpoints", "blobs", "writes">>

\* the order of the three DELETE statements of cleanup_checkpoints_by_age
ByAgeOrder == <<"writes", "blobs", "checkpoints">>

\* the statement the call executes next, "return" after the last one
StatementAt(k) == IF k <= Len(ByAgeOrder) THEN ByAgeOrder[k] ELSE "return"

\* lines 61-76 (and 106 when no thread is old)
ByAgeSelect ==
  /\ run.pc = "idle"
  /\ nRuns < MaxRuns
  /\ \E retention_days \in RetentionDays :
       IF ByAgeCastFails
       THEN Raise("by_age", retention_days, Tables)
       ELSE LET old_threads == OldThreadsByAge(retention_days)
            IN IF old_threads = {}
               THEN /\ Return("by_age", retention_days, Tables, 0, 0, 0)
                    /\ UNCHANGED <<pg_checkpoints, checkpoint_writes, checkpoint_blobs>>
               ELSE /\ run' = [pc |-> "by_age", at |-> 1,
                               retention_days |-> retention_days,
                               old_threads |-> old_threads, before |-> Tables,
                               cp_deleted |-> 0, wr_deleted |-> 0, bl_deleted |-> 0,
                               after |-> prev]
                    /\ UNCHANGED <<pg_checkpoints, checkpoint_writes,
                                   checkpoint_blobs, prev, nRuns>>
  /\ UNCHANGED <<saverVars, fanVars, memVars, otherVars>>

\* after a statement: the next one, or line 106
ByAgeAdvance(r) ==
  IF StatementAt(r.at + 1) = "return"
  THEN Return("by_age", r.retention_days, r.before,
              r.cp_deleted, r.wr_deleted, r.bl_deleted)
  ELSE /\ run' = [r EXCEPT !.at = r.at + 1]
       /\ UNCHANGED <<prev, nRuns>>

\* lines 78-83
ByAgeDeleteWrites ==
  /\ run.pc = "by_age" /\ StatementAt(run.at) = "writes"
  /\ LET gone == Deleted(checkpoint_writes, run.old_threads)
     IN /\ checkpoint_writes' = checkpoint_writes \ gone
        /\ ByAgeAdvance([run EXCEPT !.wr_deleted = Cardinality(gone)])
  /\ UNCHANGED <<pg_checkpoints, checkpoint_blobs, saverVars, fanVars, memVars, otherVars>>

\* lines 86-95
ByAgeDeleteBlobs ==
  /\ run.pc = "by_age" /\ StatementAt(run.at) = "blobs"
  /\ IF checkpoint_blobs.exists
     THEN LET gone == Deleted(checkpoint_blobs.rows, run.old_threads)
          IN /\ checkpoint_blobs' =
                  [checkpoint_blobs EXCEPT !.rows = checkpoint_blobs.rows \ gone]
             /\ ByAgeAdvance([run EXCEPT !.bl_deleted = Cardinality(gone)])
     ELSE /\ UNCHANGED checkpoint_blobs
          /\ ByAgeAdvance([run EXCEPT !.bl_deleted = 0])
  /\ UNCHANGED <<pg_checkpoints, checkpoint_writes, saverVars, fanVars, memVars, otherVars>>

\* lines 98-103
ByAgeDeleteCheckpoints ==
  /\ run.pc = "by_age" /\ StatementAt(run.at) = "checkpoints"
  /\ LET gone == Deleted(pg_checkpoints, run.old_threads)
     IN /\ pg_checkpoints' = pg_checkpoints \ gone
        /\ ByAgeAdvance([run EXCEPT !.cp_deleted = Cardinality(gone)])
  /\ UNCHANGED <<checkpoint_writes, checkpoint_blobs, saverVars, fanVars, memVars, otherVars>>

\* lines 12-20: the writes of every thread that has a checkpoint
OldDeleteWrites ==
  /\ run.pc = "idle"
  /\ nRuns < MaxRuns
  /\ \E retention_days \in RetentionDays :
       run' = [pc |-> "old", retention_days |-> retention_days, before |-> Tables,
               after |-> prev]
  /\ checkpoint_writes' =
       checkpoint_writes \ Deleted(checkpoint_writes, ThreadsOf(pg_checkpoints))
  /\ UNCHANGED <<pg_checkpoints, checkpoint_blobs, prev, nRuns, saverVars, fanVars, memVars, otherVars>>

\* lines 25-42
OldDeleteCheckpoints ==
  /\ run.pc = "old"
  /\ IF ByMaxCastFails
     THEN Raise("old", run.retention_days, run.before)
     ELSE LET gone == Deleted(pg_checkpoints, OldThreadsByMax(run.retention_days))
          IN /\ pg_checkpoints' = pg_checkpoints \ gone
             /\ Return("old", run.retention_days, run.before, Cardinality(gone), 0, 0)
             /\ UNCHANGED <<checkpoint_writes, checkpoint_blobs>>
  /\ UNCHANGED <<saverVars, fanVars, memVars, otherVars>>

\* the rows of the tables when a retention function is called
InitR ==
  /\ checkpoints = {} /\ checkpointWrites = {} /\ last = [op |-> "init"]
  /\ putLog = [k \in Threads \X CheckpointIds |-> [written |-> FALSE]]
  /\ writeLog = {} /\ nPuts = 0 /\ nPutWrites = 0
  /\ NoCall
  /\ NoBot
  /\ NoTurn
  /\ NoGraph
  /\ NoEmbedding
  /\ \E format \in Formats, h \in [Threads -> ThreadHistories],
        w \in SUBSET Threads, b \in BOOLEAN :
       /\ pg_checkpoints =
            {[thread_id |-> x[1], checkpoint_id |-> x[2],
              created_at |-> CreatedAt(format, Instants[h[x[1]][x[2]]])] :
               x \in {y \in Threads \X (1..2) : y[2] <= Len(h[y[1]])}}
       /\ checkpoint_writes = {[thread_id |-> t, idx |-> 0] : t \in w}
       /\ checkpoint_blobs =
            [exists |-> b,
             rows |-> IF b THEN {[thread_id |-> t] : t \in {x \in Threads : h[x] # <<>>}}
                      ELSE {}]
  /\ run = [pc |-> "idle"]
  /\ prev = [status |-> "none"]
  /\ nRuns = 0
  /\ NoMemory

NextR ==
  \/ ByAgeSelect \/ ByAgeDeleteWrites \/ ByAgeDeleteBlobs \/ ByAgeDeleteCheckpoints
  \/ OldDeleteWrites \/ OldDeleteCheckpoints

SpecR == InitR /\ [][NextR]_vars

(* --------------------- LongTermMemoryManager (memory.ts) ---------------- *)
\* Strings are sequences: a name is a sequence of char codes, a text is the
\* sequence of its whitespace-separated words; a word is a positive number,
\* and -w is the word w written with an upper-case letter.
Ann == <<97>>
Anna == <<97, 98>>
Users == {Ann, Anna}
Bot == <<98>>
Categories == {"facts", "general"}
SearchedCategories == <<"facts", "traits", "preferences", "history">>
Importances == {1, 5}
MaxOps == 2

MAX_MEMORIES_PER_CATEGORY == 10
MaxInteractions == 20
MaxEvents == 30
EmbeddingLength == 16

Lower(w) == IF w < 0 THEN 0 - w ELSE w

toLowerCase(text) == [i \in DOMAIN text |-> Lower(text[i])]

WordSet(text) == {text[i] : i \in DOMAIN text}

\* the ratio calculateSimilarity returns, as numerator and denominator
calculateSimilarity(text1, text2) ==
  IF text1 = text2 THEN [num |-> 1, den |-> 1]
  ELSE [num |-> Cardinality(WordSet(text1) \cap WordSet(text2)),
        den |-> Cardinality(WordSet(text1) \cup WordSet(text2))]

\* similarity > 0.8
AboveThreshold(similarity) == similarity.num * 10 > similarity.den * 8

\* the duplicate test without lower-casing either text
isDuplicateCaseSensitive(bucket, text) ==
  \E i \in DOMAIN bucket :
    AboveThreshold(calculateSimilarity(bucket[i].content, text))

isDuplicate(bucket, text) ==
  \E i \in DOMAIN bucket :
    AboveThreshold(calculateSimilarity(toLowerCase(bucket[i].content),
                                       toLowerCase(text)))

RECURSIVE SumOf(_)
SumOf(text) == IF text = <<>> THEN 0 ELSE Lower(Head(text)) + SumOf(Tail(text))

\* the embedding provider: a fixed vector for each text, components in -1..1,
\* not both zero at the two positions compressEmbedding keeps
embedQuery(text) ==
  [i \in 1..EmbeddingLength |->
     ((SumOf(text) + i) % 3) - 1]

compressEmbedding(embedding) ==
  [k \in 1..((Len(embedding) + 7) \div 8) |-> embedding[8 * (k - 1) + 1]]

\* decompressEmbedding with the step of the interpolation doubled
decompressEmbeddingOvershooting(compressed) ==
  [n \in 1..(8 * Len(compressed)) |->
     LET i == ((n - 1) \div 8) + 1
         j == (n - 1) % 8
     IN IF i < Len(compressed)
        THEN 8 * compressed[i] + (compressed[i + 1] - compressed[i]) * j * 2
        ELSE 8 * compressed[i]]

\* decompressEmbedding, every component in eighths (times 8)
decompressEmbedding(compressed) ==
  [n \in 1..(8 * Len(compressed)) |->
     LET i == ((n - 1) \div 8) + 1
         j == (n - 1) % 8
     IN IF i < Len(compressed)
        THEN 8 * compressed[i] + (compressed[i + 1] - compressed[i]) * j
        ELSE 8 * compressed[i]]

RECURSIVE SumTo(_, _, _)
SumTo(a, b, n) == IF n = 0 THEN 0 ELSE a[n] * b[n] + SumTo(a, b, n - 1)

\* dotProduct, normA and normB of cosineSimilarity: the loop runs over a
cosineSimilarity(a, b) ==
  [dot |-> SumTo(a, b, Len(a)), normA |-> SumTo(a, a, Len(a)),
   normB |-> SumTo(b, b, Len(a))]

\* x.dot / (sqrt(normA) * sqrt(x.normB)) > y.dot / (sqrt(normA) * sqrt(y.normB))
\* for two similarities to the same query
MoreSimilar(x, y) ==
  IF x.dot >= 0 /\ y.dot >= 0
  THEN x.dot * x.dot * y.normB > y.dot * y.dot * x.normB
  ELSE IF x.dot < 0 /\ y.dot < 0
  THEN x.dot * x.dot * y.normB < y.dot * y.dot * x.normB
  ELSE x.dot >= 0 /\ y.dot < 0

\* Array.prototype.sort is stable: an element goes after every element whose
\* key is at least its own
RECURSIVE InsertDesc(_, _)
InsertDesc(sorted, p) ==
  IF sorted = <<>> THEN <<p>>
  ELSE IF Head(sorted).key >= p.key THEN <<Head(sorted)>> \o InsertDesc(Tail(sorted), p)
  ELSE <<p>> \o sorted

RECURSIVE SortPairs(_, _)
SortPairs(sorted, rest) ==
  IF rest = <<>> THEN sorted
  ELSE SortPairs(InsertDesc(sorted, Head(rest)), Tail(rest))

\* xs sorted by descending key, keys[i] the key of xs[i]
SortDescBy(xs, keys) ==
  LET sorted == SortPairs(<<>>, [i \in DOMAIN xs |-> [key |-> keys[i], item |-> xs[i]]])
  IN [i \in DOMAIN sorted |-> sorted[i].item]

\* xs.slice(0, n) and, in place, xs.splice(n)
SliceTo(xs, n) == SubSeq(xs, 1, IF n < Len(xs) THEN n ELSE Len(xs))

relationshipKey(userName, botName) == userName \o <<45>> \o botName

\* String.prototype.includes
Includes(s, part) ==
  \E k \in 0..(Len(s) - Len(part)) : SubSeq(s, k + 1, k + Len(part)) = part

\* Array.prototype.includes
Contains(xs, x) == \E i \in DOMAIN xs : xs[i] = x

\* an absent userName argument, or the empty string: both are falsy
NoUser == <<>>

NewMemory(content) ==
  [id |-> Digits(clock), content |-> content, timestamp |-> clock,
   embedding |-> compressEmbedding(embedQuery(content))]

Timestamps(xs) == [i \in DOMAIN xs |-> xs[i].timestamp]

ImportanceOf(xs) == [i \in DOMAIN xs |-> xs[i].importance]

\* lines 113-117 with the sort ascending: the oldest entries are kept
CapPersonalOldest(categoryArray) ==
  IF Len(categoryArray) > MAX_MEMORIES_PER_CATEGORY
  THEN SliceTo(SortDescBy(categoryArray,
                          [i \in DOMAIN categoryArray |-> 0 - categoryArray[i].timestamp]),
               MAX_MEMORIES_PER_CATEGORY)
  ELSE categoryArray

\* lines 113-117
CapPersonal(categoryArray) ==
  IF Len(categoryArray) > MAX_MEMORIES_PER_CATEGORY
  THEN SliceTo(SortDescBy(categoryArray, Timestamps(categoryArray)),
               MAX_MEMORIES_PER_CATEGORY)
  ELSE categoryArray

\* lines 156-158 with pop() in the place of shift()
CapInteractionsPop(interactions) ==
  IF Len(interactions) > MaxInteractions
  THEN SubSeq(interactions, 1, Len(interactions) - 1) ELSE interactions

\* lines 156-158
CapInteractions(interactions) ==
  IF Len(interactions) > MaxInteractions THEN Tail(interactions) ELSE interactions

\* lines 189-192 with the events sorted by timestamp
CapEventsByTime(events) ==
  IF Len(events) > MaxEvents
  THEN SliceTo(SortDescBy(events, Timestamps(events)), MaxEvents)
  ELSE events

\* lines 189-192
CapEvents(events) ==
  IF Len(events) > MaxEvents
  THEN SliceTo(SortDescBy(events, ImportanceOf(events)), MaxEvents)
  ELSE events

\* saveMemory after a change of this.memory
Saved(m) ==
  /\ memory' = m
  /\ file' = m
  /\ clock' = clock + 1
  /\ nOps' = nOps + 1
  /\ UNCHANGED memoryLoaded

\* a store that returns 'duplicate'
Rejected ==
  /\ nOps' = nOps + 1
  /\ UNCHANGED <<memory, file, clock, memoryLoaded, relLog>>

storePersonalMemory(userName, fact, category) ==
  LET categoryArray == memory.personal[userName][category]
      personalMemory == NewMemory(fact) @@ [category |-> category]
  IN IF isDuplicate(categoryArray, fact)
     THEN /\ Rejected
          /\ lastM' = [op |-> "storePersonal", userName |-> userName,
                       content |-> fact, category |-> category, out |-> "duplicate",
                       embedded |-> FALSE, saved |-> FALSE, before |-> memory]
     ELSE /\ Saved([memory EXCEPT !.personal[userName][category] =
                      CapPersonal(Append(categoryArray, personalMemory))])
          /\ lastM' = [op |-> "storePersonal", userName |-> userName,
                       content |-> fact, category |-> category,
                       out |-> personalMemory.id,
                       embedded |-> TRUE, saved |-> TRUE, before |-> memory]
          /\ UNCHANGED relLog

RelationshipAt(relationships, key) ==
  IF \E i \in DOMAIN relationships : relationships[i].key = key
  THEN CHOOSE i \in DOMAIN relationships : relationships[i].key = key
  ELSE 0

storeRelationshipMemory(userName, botName, interaction, sentiment) ==
  LET key == relationshipKey(userName, botName)
      relationships ==
        IF RelationshipAt(memory.relationships, key) = 0
        THEN Append(memory.relationships,
                    [key |-> key, userName |-> userName, botName |-> botName,
                     interactions |-> <<>>])
        ELSE memory.relationships
      at == RelationshipAt(relationships, key)
      relationshipMemory == NewMemory(interaction) @@ [sentiment |-> sentiment]
  IN /\ Saved([memory EXCEPT !.relationships =
                 [relationships EXCEPT ![at].interactions =
                    CapInteractions(Append(relationships[at].interactions,
                                           relationshipMemory))]])
     /\ relLog' = [relLog EXCEPT ![userName] = Append(@, relationshipMemory.id)]
     /\ lastM' = [op |-> "storeRelationship", userName |-> userName,
                  content |-> interaction, out |-> relationshipMemory.id,
                  embedded |-> TRUE, saved |-> TRUE, before |-> memory]

storeEventMemory(content, participants, importance) ==
  LET eventMemory ==
        NewMemory(content) @@ [participants |-> participants, importance |-> importance]
  IN IF isDuplicate(memory.events, content)
     THEN /\ Rejected
          /\ lastM' = [op |-> "storeEvent", content |-> content, out |-> "duplicate",
                       embedded |-> FALSE, saved |-> FALSE, before |-> memory]
     ELSE /\ Saved([memory EXCEPT !.events = CapEvents(Append(memory.events, eventMemory))])
          /\ lastM' = [op |-> "storeEvent", content |-> content, out |-> eventMemory.id,
                       importance |-> importance,
                       embedded |-> TRUE, saved |-> TRUE, before |-> memory]
          /\ UNCHANGED relLog

Hit(type, category, m, queryEmbedding) ==
  [type |-> type, category |-> category, content |-> m.content,
   similarity |-> cosineSimilarity(queryEmbedding, decompressEmbedding(m.embedding)),
   timestamp |-> m.timestamp, id |-> m.id]

Hits(type, category, xs, queryEmbedding) ==
  [i \in DOMAIN xs |-> Hit(type, category, xs[i], queryEmbedding)]

\* lines 205-220: the categories the loop names, in its order
RECURSIVE PersonalHits(_, _, _)
PersonalHits(personal, k, queryEmbedding) ==
  IF k > Len(SearchedCategories) THEN <<>>
  ELSE (IF SearchedCategories[k] \in DOMAIN personal
        THEN Hits("personal", SearchedCategories[k], personal[SearchedCategories[k]],
                  queryEmbedding)
        ELSE <<>>)
       \o PersonalHits(personal, k + 1, queryEmbedding)

\* the lookup that takes the record of another user
PersonalOfOther(userName, users, queryEmbedding) ==
  IF userName # NoUser /\ userName \in users
  THEN PersonalHits(memory.personal[CHOOSE u \in users : u # userName], 1,
                    queryEmbedding)
  ELSE <<>>

\* lines 205-220
PersonalOf(userName, users, queryEmbedding) ==
  IF userName # NoUser /\ userName \in users
  THEN PersonalHits(memory.personal[userName], 1, queryEmbedding)
  ELSE <<>>

\* lines 223-238
RECURSIVE RelationshipHits(_, _, _)
RelationshipHits(relationships, userName, queryEmbedding) ==
  IF relationships = <<>> THEN <<>>
  ELSE (IF userName = NoUser \/ Includes(Head(relationships).key, userName)
        THEN [i \in DOMAIN Head(relationships).interactions |->
                Hit("relationship", "interaction",
                    Head(relationships).interactions[i], queryEmbedding)
                  @@ [sentiment |-> Head(relationships).interactions[i].sentiment]]
        ELSE <<>>)
       \o RelationshipHits(Tail(relationships), userName, queryEmbedding)

\* lines 241-254
RECURSIVE EventHits(_, _, _)
EventHits(events, userName, queryEmbedding) ==
  IF events = <<>> THEN <<>>
  ELSE (IF userName = NoUser \/ Contains(Head(events).participants, userName)
        THEN <<Hit("event", "general", Head(events), queryEmbedding)
                 @@ [importance |-> Head(events).importance]>>
        ELSE <<>>)
       \o EventHits(Tail(events), userName, queryEmbedding)

\* line 257: sort((a, b) => b.similarity - a.similarity), a stable sort
RECURSIVE InsertBySimilarity(_, _)
InsertBySimilarity(sorted, h) ==
  IF sorted = <<>> THEN <<h>>
  ELSE IF MoreSimilar(h.similarity, Head(sorted).similarity) THEN <<h>> \o sorted
  ELSE <<Head(sorted)>> \o InsertBySimilarity(Tail(sorted), h)

RECURSIVE SortBySimilarityFrom(_, _)
SortBySimilarityFrom(sorted, rest) ==
  IF rest = <<>> THEN sorted
  ELSE SortBySimilarityFrom(InsertBySimilarity(sorted, Head(rest)), Tail(rest))

SortBySimilarity(results) == SortBySimilarityFrom(<<>>, results)

searchMemories(query, userName, limit) ==
  LET queryEmbedding == embedQuery(query)
      results == PersonalOf(userName, Users, queryEmbedding)
                   \o RelationshipHits(memory.relationships, userName, queryEmbedding)
                   \o EventHits(memory.events, userName, queryEmbedding)
  IN SliceTo(SortBySimilarity(results), limit)

(* inputs *)
Facts == {<<1, 2, 3, 4, 5>>, <<0 - 1, 2, 3, 4, 5>>, <<1, 2, 3, 4, 5, 6>>}
EventTexts == {<<5, 4, 3, 2, 1>>, <<1, 2, 3, 4, 5>>}
ParticipantLists == {<<Anna>>, <<Anna, Ann>>}
Queries == {<<1, 2>>}
SearchLimits == {5, 100}

StorePersonal ==
  /\ memoryLoaded /\ nOps < MaxOps
  /\ \E userName \in Users, fact \in Facts, category \in Categories :
       storePersonalMemory(userName, fact, category)
  /\ UNCHANGED <<saverVars, fanVars, pgVars, otherVars>>

StoreRelationship ==
  /\ memoryLoaded /\ nOps < MaxOps
  /\ \E userName \in Users, interaction \in {<<1, 2, 3, 4, 5>>} :
       storeRelationshipMemory(userName, Bot, interaction, "neutral")
  /\ UNCHANGED <<saverVars, fanVars, pgVars, otherVars>>

StoreEvent ==
  /\ memoryLoaded /\ nOps < MaxOps
  /\ \E content \in EventTexts, participants \in ParticipantLists,
        importance \in Importances :
       storeEventMemory(content, participants, importance)
  /\ UNCHANGED <<saverVars, fanVars, pgVars, otherVars>>

Search ==
  /\ memoryLoaded /\ nOps < MaxOps
  /\ \E query \in Queries, userName \in ({NoUser} \cup Users), limit \in SearchLimits :
       lastM' = [op |-> "search", query |-> query, userName |-> userName,
                 limit |-> limit, out |-> searchMemories(query, userName, limit)]
  /\ nOps' = nOps + 1
  /\ UNCHANGED <<memory, memoryLoaded, file, clock, relLog>>
  /\ UNCHANGED <<saverVars, fanVars, pgVars, otherVars>>

\* the memories earlier calls have stored: n memories with the ids
\* first + 1 .. first + n, each of one word of its own
StoredMemory(k) ==
  [id |-> Digits(k), content |-> <<100 + k>>, timestamp |-> k,
   embedding |-> compressEmbedding(embedQuery(<<100 + k>>))]

StoredPersonal(first, n) ==
  [k \in 1..n |-> StoredMemory(first + k) @@ [category |-> "facts"]]

StoredInteractions(first, n) ==
  [k \in 1..n |-> StoredMemory(first + k) @@ [sentiment |-> "neutral"]]

StoredEvents(first, n) ==
  [k \in 1..n |->
     StoredMemory(first + k)
       @@ [participants |-> IF k % 2 = 0 THEN <<Ann>> ELSE <<Anna>>,
           importance |-> (k % 5) + 1]]

\* how full the buckets are: empty, one below the cap, at the cap
Fill(cap, level) == IF level = 0 THEN 0 ELSE cap - 2 + level

MemoryAt(level) ==
  [personal |->
     [u \in Users |->
        [c \in Categories |->
           IF c # "facts" THEN <<>>
           ELSE IF u = Ann THEN StoredPersonal(0, Fill(MAX_MEMORIES_PER_CATEGORY, level))
           ELSE StoredPersonal(10, IF level = 0 THEN 0 ELSE 1)]],
   relationships |->
     IF level = 0 THEN <<>>
     ELSE <<[key |-> relationshipKey(Anna, Bot), userName |-> Anna, botName |-> Bot,
             interactions |-> StoredInteractions(20, Fill(MaxInteractions, level))],
            [key |-> relationshipKey(Ann, Bot), userName |-> Ann, botName |-> Bot,
             interactions |-> StoredInteractions(40, 1)]>>,
   events |-> StoredEvents(50, Fill(MaxEvents, level)),
   preferences |-> <<>>]

IdsOf(xs) == [i \in DOMAIN xs |-> xs[i].id]

\* the manager after initialize() and the stores of an earlier conversation
InitM ==
  /\ checkpoints = {} /\ checkpointWrites = {} /\ last = [op |-> "init"]
  /\ putLog = [k \in Threads \X CheckpointIds |-> [written |-> FALSE]]
  /\ writeLog = {} /\ nPuts = 0 /\ nPutWrites = 0
  /\ NoCall
  /\ NoBot
  /\ NoTurn
  /\ NoGraph
  /\ NoEmbedding
  /\ NoRun
  /\ \E level \in 0..2 :
       /\ memory = MemoryAt(level)
       /\ file = MemoryAt(level)
       /\ relLog = [u \in Users |->
                      IF level = 0 THEN <<>>
                      ELSE IF u = Anna
                      THEN IdsOf(StoredInteractions(20, Fill(MaxInteractions, level)))
                      ELSE IdsOf(StoredInteractions(40, 1))]
  /\ memoryLoaded = TRUE
  /\ clock = 100
  /\ lastM = [op |-> "init"]
  /\ nOps = 0

NextM == StorePersonal \/ StoreRelationship \/ StoreEvent \/ Search

SpecM == InitM /\ [][NextM]_vars

(* ---------------- the manager from its construction on ------------------ *)
\* The file of the record holds nothing, a text that is no JSON, or a record.
NoFile == [exists |-> FALSE]
Unparsable == [exists |-> TRUE]
IsRecord(f) == "personal" \in DOMAIN f

\* this.memory of a manager that has been constructed (lines 22-27)
EmptyMemory ==
  [personal |-> <<>>, relationships |-> <<>>, events |-> <<>>, preferences |-> <<>>]

\* The clock counts the days of one year, day 1 being the first of January.
MonthDays == <<31, 28, 31, 30, 31, 30, 31, 31, 30, 31, 30, 31>>

RECURSIVE DaysBefore(_)
DaysBefore(month) ==
  IF month <= 1 THEN 0 ELSE DaysBefore(month - 1) + MonthDays[month - 1]

\* getMonth() + 1 and getDate()
MonthOf(day) ==
  CHOOSE month \in 1..12 :
    DaysBefore(month) < day /\ day <= DaysBefore(month) + MonthDays[month]
DateOf(day) == day - DaysBefore(MonthOf(day))

\* lines 373-374: setMonth(getMonth() - 1) keeps the day of the month, and a
\* day the earlier month does not have runs over into the month after it;
\* from January it goes to the December before
setMonth(day) ==
  IF MonthOf(day) = 1 THEN day - 31
  ELSE DaysBefore(MonthOf(day) - 1) + DateOf(day)

oneMonthAgo(now) == setMonth(now)

\* content.length: a text is its words, of six letters each, joined by spaces
CharLength(text) == IF text = <<>> THEN 0 ELSE 7 * Len(text) - 1

\* lines 377-379
CleanEvents(events, now) ==
  SelectSeq(events, LAMBDA e : e.timestamp > oneMonthAgo(now) \/ e.importance >= 4)

\* lines 382-387
CleanRelationships(relationships, now) ==
  [i \in DOMAIN relationships |->
     [relationships[i] EXCEPT
        !.interactions = SelectSeq(@, LAMBDA x : x.timestamp > oneMonthAgo(now))]]

\* lines 394-402: a category array of more than 5 entries
CleanCategory(categoryArray, now) ==
  IF Len(categoryArray) > 5
  THEN LET filtered ==
             SelectSeq(categoryArray,
                       LAMBDA x : x.timestamp > oneMonthAgo(now)
                                    \/ CharLength(x.content) > 30)
       IN SliceTo(SortDescBy(filtered, Timestamps(filtered)), 8)
  ELSE categoryArray

\* lines 390-404
CleanPersonal(personal, now) ==
  [u \in DOMAIN personal |->
     [c \in DOMAIN personal[u] |->
        IF c \in {"facts", "traits", "preferences", "history"}
        THEN CleanCategory(personal[u][c], now)
        ELSE personal[u][c]]]

cleanupOldMemories(m, now) ==
  [m EXCEPT !.events = CleanEvents(m.events, now),
            !.relationships = CleanRelationships(m.relationships, now),
            !.personal = CleanPersonal(m.personal, now)]

\* a load that reads the file whatever the flag says
loadMemoryIfNeededAlways(m, loaded, f, now) ==
  IF IsRecord(f)
  THEN [memory |-> cleanupOldMemories(f, now), read |-> TRUE, failed |-> FALSE,
        loaded |-> TRUE]
  ELSE [memory |-> m, read |-> TRUE, failed |-> TRUE, loaded |-> TRUE]

\* a load that leaves the flag unset when reading or parsing failed
loadMemoryIfNeededRetrying(m, loaded, f, now) ==
  IF loaded THEN [memory |-> m, read |-> FALSE, failed |-> FALSE, loaded |-> TRUE]
  ELSE IF IsRecord(f)
  THEN [memory |-> cleanupOldMemories(f, now), read |-> TRUE, failed |-> FALSE,
        loaded |-> TRUE]
  ELSE [memory |-> m, read |-> TRUE, failed |-> TRUE, loaded |-> FALSE]

\* lines 53-67: this.memory and this.memoryLoaded after the call, whether
\* the file was read and whether reading or parsing it failed
loadMemoryIfNeeded(m, loaded, f, now) ==
  IF loaded THEN [memory |-> m, read |-> FALSE, failed |-> FALSE, loaded |-> TRUE]
  ELSE IF IsRecord(f)
  THEN [memory |-> cleanupOldMemories(f, now), read |-> TRUE, failed |-> FALSE,
        loaded |-> TRUE]
  ELSE [memory |-> m, read |-> TRUE, failed |-> TRUE, loaded |-> TRUE]

\* a category or a sentiment read as a text: the text of that one word
AsText(word) ==
  CASE word = "facts" -> <<11>>
    [] word = "traits" -> <<12>>
    [] word = "preferences" -> <<13>>
    [] word = "history" -> <<14>>
    [] word = "general" -> <<15>>
    [] word = "positive" -> <<16>>
    [] word = "negative" -> <<17>>
    [] word = "neutral" -> <<18>>

\* lines 78-85: the record of a user, created at the user's first store
EmptyUserMemory ==
  [c \in {"facts", "traits", "preferences", "history"} |-> <<>>]

UserMemoryOf(m, userName) ==
  IF userName \in DOMAIN m.personal THEN m.personal[userName] ELSE EmptyUserMemory

\* line 89: userMemory[category] || []
CategoryArrayOf(userMemory, category) ==
  IF category \in DOMAIN userMemory THEN userMemory[category] ELSE <<>>

MemoryOf(content, now) ==
  [id |-> Digits(now), content |-> content, timestamp |-> now,
   embedding |-> compressEmbedding(embedQuery(content))]

\* lines 75-123 on the memory m at the time now: the memory after the call,
\* what the call returns, whether it wrote the file, whether it threw.
\* embeddingsUp: whether the call of the embedding provider succeeds.
PersonalStored(m, userName, fact, category, now, embeddingsUp) ==
  LET userMemory == UserMemoryOf(m, userName)
      created == [m EXCEPT !.personal = (userName :> userMemory) @@ m.personal]
      categoryArray == CategoryArrayOf(userMemory, category)
      personalMemory == MemoryOf(fact, now) @@ [category |-> category]
  IN IF isDuplicate(categoryArray, fact)
     THEN [memory |-> created, out |-> "duplicate", saved |-> FALSE, thrown |-> FALSE]
     ELSE IF ~embeddingsUp
     THEN [memory |-> created, out |-> "error", saved |-> FALSE, thrown |-> TRUE]
     ELSE [memory |->
             [m EXCEPT !.personal =
                (userName :>
                   ((category :> CapPersonal(Append(categoryArray, personalMemory)))
                      @@ userMemory)) @@ m.personal],
           out |-> "stored", id |-> personalMemory.id,
           saved |-> TRUE, thrown |-> FALSE]

\* lines 125-162 on the memory m at the time now
RelationshipStored(m, userName, botName, interaction, sentiment, now, embeddingsUp) ==
  LET key == relationshipKey(userName, botName)
      relationships ==
        IF RelationshipAt(m.relationships, key) = 0
        THEN Append(m.relationships,
                    [key |-> key, userName |-> userName, botName |-> botName,
                     interactions |-> <<>>])
        ELSE m.relationships
      at == RelationshipAt(relationships, key)
      relationshipMemory == MemoryOf(interaction, now) @@ [sentiment |-> sentiment]
  IN IF ~embeddingsUp
     THEN [memory |-> [m EXCEPT !.relationships = relationships],
           out |-> "error", saved |-> FALSE, thrown |-> TRUE]
     ELSE [memory |->
             [m EXCEPT !.relationships =
                [relationships EXCEPT ![at].interactions =
                   CapInteractions(Append(relationships[at].interactions,
                                          relationshipMemory))]],
           out |-> "stored", id |-> relationshipMemory.id,
           saved |-> TRUE, thrown |-> FALSE]

\* lines 198-258 on the memory m
SearchOf(m, query, userName, limit) ==
  LET queryEmbedding == embedQuery(query)
      results ==
        (IF userName # NoUser /\ userName \in DOMAIN m.personal
         THEN PersonalHits(m.personal[userName], 1, queryEmbedding)
         ELSE <<>>)
          \o RelationshipHits(m.relationships, userName, queryEmbedding)
          \o EventHits(m.events, userName, queryEmbedding)
  IN SliceTo(SortBySimilarity(results), limit)

\* the literal bot name of lines 450 ('香草'); Bot is the configured botName
Vanilla == <<118>>

\* the answers of the language model to a context request: the call rejects,
\* or it resolves with a content
Chats == {"rejected", "", "background"}

\* a getRelevantContext that passes the text of a failure on as the context
getRelevantContextLeaking(m, userId, currentMessage, embeddingsUp, chat) ==
  IF userId \notin DOMAIN m.personal
       /\ RelationshipAt(m.relationships, relationshipKey(userId, Vanilla)) = 0
  THEN [context |-> "", failed |-> FALSE]
  ELSE IF ~embeddingsUp THEN [context |-> "error", failed |-> TRUE]
  ELSE IF SearchOf(m, currentMessage, userId, 3) = <<>>
  THEN [context |-> "", failed |-> FALSE]
  ELSE IF chat = "rejected" THEN [context |-> "error", failed |-> TRUE]
  ELSE [context |-> chat, failed |-> FALSE]

\* lines 450-474 on the loaded memory m: the context returned, and whether
\* the search or the model call failed
getRelevantContext(m, userId, currentMessage, embeddingsUp, chat) ==
  IF userId \notin DOMAIN m.personal
       /\ RelationshipAt(m.relationships, relationshipKey(userId, Vanilla)) = 0
  THEN [context |-> "", failed |-> FALSE]
  ELSE IF ~embeddingsUp THEN [context |-> "", failed |-> TRUE]
  ELSE IF SearchOf(m, currentMessage, userId, 3) = <<>>
  THEN [context |-> "", failed |-> FALSE]
  ELSE IF chat = "rejected" THEN [context |-> "", failed |-> TRUE]
  ELSE [context |-> chat, failed |-> FALSE]

\* '評估失敗' and '解析失敗'
EvaluationFailed == <<90>>
ParseFailed == <<91>>

\* an evaluation that asks for storage also when the model call failed
evaluateConversationStoring(answer) ==
  IF answer.kind = "json" THEN answer.evaluation
  ELSE [shouldStore |-> TRUE, personalInfo |-> <<>>, sentiment |-> "neutral",
        interactionSummary |-> ParseFailed]

\* lines 417-444: the evaluation for an answer of the language model. The
\* call rejects, or its content holds no {...}, or JSON.parse throws on it,
\* or it parses to an evaluation.
evaluateConversation(answer) ==
  IF answer.kind = "json" THEN answer.evaluation
  ELSE IF answer.kind = "no json"
  THEN [shouldStore |-> FALSE, personalInfo |-> <<>>, sentiment |-> "neutral",
        interactionSummary |-> ParseFailed]
  ELSE [shouldStore |-> FALSE, personalInfo |-> <<>>, sentiment |-> "neutral",
        interactionSummary |-> EvaluationFailed]

\* the manager after one more store call with the result r
AfterStore(s, r) ==
  [memory |-> r.memory,
   file |-> IF r.saved THEN r.memory ELSE s.file,
   now |-> IF r.saved THEN s.now + 1 ELSE s.now,
   thrown |-> r.thrown,
   stored |-> IF r.saved THEN Append(s.stored, r.id) ELSE s.stored]

\* lines 486-488: the arguments are (info.content, info.category), the
\* parameters (userName, fact, category = 'general')
RECURSIVE StoreInfos(_, _, _, _)
StoreInfos(s, personalInfo, k, embeddingsUp) ==
  IF k > Len(personalInfo) \/ s.thrown THEN s
  ELSE StoreInfos(
         AfterStore(s, PersonalStored(s.memory, personalInfo[k].content,
                                      AsText(personalInfo[k].category), "general",
                                      s.now, embeddingsUp)),
         personalInfo, k + 1, embeddingsUp)

\* lines 477-497 on the manager s: the arguments of line 492 are (botName,
\* interactionSummary, sentiment), the parameters (userName, botName,
\* interaction, sentiment = 'neutral')
autoProcessConversation(s, userName, botName, answer, embeddingsUp) ==
  LET evaluation == evaluateConversation(answer)
  IN IF ~evaluation.shouldStore THEN s
     ELSE LET p == StoreInfos(s, evaluation.personalInfo, 1, embeddingsUp)
          IN IF p.thrown THEN p
             ELSE IF /\ evaluation.interactionSummary # <<>>
                     /\ evaluation.interactionSummary # EvaluationFailed
             THEN AfterStore(p, RelationshipStored(p.memory, botName,
                                                   evaluation.interactionSummary,
                                                   AsText(evaluation.sentiment),
                                                   "neutral", p.now, embeddingsUp))
             ELSE p

\* an initialize that writes the empty record whatever the file holds
initializeOverwriting(m, loaded, f) ==
  [file |-> m, memoryLoaded |-> TRUE]

\* lines 37-51: fs.access rejects when the file does not exist
initialize(m, loaded, f) ==
  IF f = NoFile THEN [file |-> m, memoryLoaded |-> TRUE]
  ELSE [file |-> f, memoryLoaded |-> loaded]

\* a postProcess that awaits the detached call before it returns
postProcessAwaiting(s, botName) ==
  [goto |-> "postProcess", task |-> [pc |-> "none"]]

\* graph.ts 92-108: where the run goes, and the call it leaves detached
postProcess(s, botName) ==
  [goto |-> "__end__",
   task |-> IF s.userMessage # <<>> /\ Len(s.messages) > 0
            THEN [pc |-> "pending", userName |-> s.userName,
                  userMessage |-> s.userMessage,
                  botResponse |-> s.messages[Len(s.messages)].content,
                  botName |-> botName]
            ELSE [pc |-> "none"]]

(* inputs *)
UserMessages == {<<>>, <<1, 2>>}
ToolNames == {"websearch", "rememberPersonal"}
Contents == {"", "answer"}
Responses ==
  {[kind |-> "rejected"]}
    \cup {[kind |-> "ai", tool |-> t, content |-> ""] : t \in ToolNames}
    \cup {[kind |-> "ai", tool |-> "none", content |-> c] : c \in Contents}
Infos ==
  {<<>>,
   <<[content |-> <<1, 2, 3, 4, 5>>, category |-> "facts"]>>,
   <<[content |-> <<1, 2, 3, 4, 5>>, category |-> "facts"],
     [content |-> <<6, 7>>, category |-> "traits"]>>}
Summaries == {<<>>, EvaluationFailed, <<7, 8>>}
Sentiments == {"positive", "neutral"}
Evaluations ==
  [shouldStore : BOOLEAN, personalInfo : Infos, sentiment : Sentiments,
   interactionSummary : Summaries]
Answers ==
  {[kind |-> "rejected"], [kind |-> "no json"], [kind |-> "bad json"]}
    \cup {[kind |-> "json", evaluation |-> e] : e \in Evaluations}

\* bot.ts 74-75: _addSquare constructs the store and initializes it
Initialize ==
  /\ ~initialized
  /\ LET r == initialize(memory, memoryLoaded, file)
     IN /\ file' = r.file
        /\ memoryLoaded' = r.memoryLoaded
        /\ lastG' = [op |-> "initialize", fileBefore |-> file]
  /\ initialized' = TRUE
  /\ UNCHANGED <<memory, clock, lastM, relLog, nOps, node, state, task>>
  /\ UNCHANGED <<saverVars, fanVars, pgVars, embVars, lateVars>>

\* bot.ts 103-110: the run of the graph for one mention of the bot
Invoke ==
  /\ initialized /\ node = "idle"
  /\ \E userName \in Users, userMessage \in UserMessages :
       state' = [messages |-> <<[type |-> "human", tool |-> "none", content |-> "text"]>>,
                 reaction |-> <<0>>, memoryContext |-> "undefined",
                 userName |-> userName, userMessage |-> userMessage,
                 toolCallCount |-> 0]
  /\ node' = "loadMemoryContext"
  /\ lastG' = [op |-> "invoke"]
  /\ UNCHANGED <<initialized, task, memVars>>
  /\ UNCHANGED <<saverVars, fanVars, pgVars, embVars, lateVars>>

\* graph.ts 27-43, with memory.ts 447-475 and 53-67
LoadMemoryContext ==
  /\ node = "loadMemoryContext"
  /\ \E embeddingsUp \in BOOLEAN, chat \in Chats :
       LET l == loadMemoryIfNeeded(memory, memoryLoaded, file, clock)
           c == getRelevantContext(l.memory, state.userName, state.userMessage,
                                   embeddingsUp, chat)
       IN /\ memory' = l.memory
          /\ memoryLoaded' = TRUE
          /\ state' = [state EXCEPT !.memoryContext = c.context]
          /\ lastG' = [op |-> "loadMemoryContext", read |-> l.read,
                       loadFailed |-> l.failed, searchFailed |-> c.failed,
                       goto |-> "processMessage", propagated |-> FALSE]
  /\ node' = "processMessage"
  /\ UNCHANGED <<initialized, task, file, clock, lastM, relLog, nOps>>
  /\ UNCHANGED <<saverVars, fanVars, pgVars, embVars, lateVars>>

\* a limit that never holds
toolCallLimitNever(s) == FALSE

\* graph.ts 64: (state.toolCallCount || 0) >= 3
toolCallLimit(s) == s.toolCallCount >= 3

\* graph.ts 46-89
ProcessMessage ==
  /\ node = "processMessage"
  /\ \E response \in Responses :
       IF response.kind = "rejected"
       THEN /\ state' = [state EXCEPT
                           !.messages = Append(@, [type |-> "human", tool |-> "none",
                                                   content |-> "fallback"]),
                           !.reaction = Append(@, 6)]
            /\ node' = "__end__"
       ELSE LET message == [type |-> "ai", tool |-> response.tool,
                            content |-> response.content]
            IN IF response.tool # "none" /\ ~toolCallLimit(state)
               THEN /\ state' = [state EXCEPT !.messages = Append(@, message),
                                              !.toolCallCount = @ + 1]
                    /\ node' = "executeTools"
               ELSE /\ state' = [state EXCEPT !.messages = Append(@, message)]
                    /\ node' = "postProcess"
  /\ lastG' = [op |-> "processMessage"]
  /\ UNCHANGED <<initialized, task, memVars>>
  /\ UNCHANGED <<saverVars, fanVars, pgVars, embVars, lateVars>>

\* the ToolNode of graph.ts 114 on the tool call of the last message: the
\* tool returns its Command, or it throws and the ToolNode decides where
\* the run goes
ExecuteTools ==
  /\ node = "executeTools"
  /\ LET toolCall == state.messages[Len(state.messages)].tool
         toolMessage == [type |-> "tool", tool |-> "none", content |-> "text"]
         errorMessage == [type |-> "tool", tool |-> "none", content |-> "error"]
     IN IF toolCall = "rememberPersonal"
        THEN \E embeddingsUp \in BOOLEAN :
               LET l == loadMemoryIfNeeded(memory, memoryLoaded, file, clock)
                   r == PersonalStored(l.memory, state.userName, <<1, 2, 3, 4, 5>>,
                                       "facts", clock, embeddingsUp)
               IN /\ memory' = r.memory
                  /\ memoryLoaded' = TRUE
                  /\ file' = IF r.saved THEN r.memory ELSE file
                  /\ clock' = clock + 1
                  /\ IF r.thrown
                     THEN /\ state' = [state EXCEPT !.messages = Append(@, errorMessage)]
                          /\ node' \in {"processMessage", "__end__", "failed"}
                     ELSE /\ state' = [state EXCEPT !.messages = Append(@, toolMessage),
                                                    !.reaction = Append(@, 2)]
                          /\ node' = "processMessage"
        ELSE /\ \E returns \in BOOLEAN :
                  IF returns
                  THEN /\ state' = [state EXCEPT !.messages = Append(@, toolMessage)]
                       /\ node' = "processMessage"
                  ELSE /\ state' = [state EXCEPT !.messages = Append(@, errorMessage)]
                       /\ node' \in {"processMessage", "__end__", "failed"}
             /\ UNCHANGED <<memory, memoryLoaded, file, clock>>
  /\ lastG' = [op |-> "executeTools"]
  /\ UNCHANGED <<initialized, task, lastM, relLog, nOps>>
  /\ UNCHANGED <<saverVars, fanVars, pgVars, embVars, lateVars>>

\* graph.ts 92-108
PostProcess ==
  /\ node = "postProcess"
  /\ LET r == postProcess(state, Bot)
     IN /\ node' = r.goto
        /\ task' = r.task
  /\ lastG' = [op |-> "postProcess"]
  /\ UNCHANGED <<initialized, state, memVars>>
  /\ UNCHANGED <<saverVars, fanVars, pgVars, embVars, lateVars>>

\* the detached call of graph.ts 99-101 runs to its end (memory.ts 477-497)
AutoProcessConversation ==
  /\ task.pc = "pending"
  /\ \E answer \in Answers, embeddingsUp \in BOOLEAN :
       LET l == loadMemoryIfNeeded(memory, memoryLoaded, file, clock)
           s == autoProcessConversation(
                  [memory |-> l.memory, file |-> file, now |-> clock,
                   thrown |-> FALSE, stored |-> <<>>],
                  task.userName, task.botName, answer, embeddingsUp)
       IN /\ memory' = s.memory
          /\ memoryLoaded' = TRUE
          /\ file' = s.file
          /\ clock' = s.now
          /\ lastM' = [op |-> "autoProcessConversation",
                       userName |-> task.userName, botName |-> task.botName,
                       answer |-> answer, embeddingsUp |-> embeddingsUp,
                       before |-> memory, fileBefore |-> file,
                       stored |-> s.stored, caught |-> s.thrown,
                       rejected |-> FALSE]
  /\ task' = [task EXCEPT !.pc = "settled"]
  /\ UNCHANGED <<initialized, node, state, lastG, relLog, nOps>>
  /\ UNCHANGED <<saverVars, fanVars, pgVars, embVars, lateVars>>

\* a store constructed for a chat: what its file holds from earlier runs
InitG ==
  /\ checkpoints = {} /\ checkpointWrites = {} /\ last = [op |-> "init"]
  /\ putLog = [k \in Threads \X CheckpointIds |-> [written |-> FALSE]]
  /\ writeLog = {} /\ nPuts = 0 /\ nPutWrites = 0
  /\ NoCall
  /\ NoBot
  /\ NoTurn
  /\ NoRun
  /\ NoEmbedding
  /\ memory = EmptyMemory
  /\ memoryLoaded = FALSE
  /\ file \in {NoFile, Unparsable, MemoryAt(0), MemoryAt(1)}
  /\ clock = 100
  /\ lastM = [op |-> "init"]
  /\ relLog = <<>>
  /\ nOps = 0
  /\ initialized = FALSE
  /\ node = "idle"
  /\ state = [messages |-> <<>>]
  /\ task = [pc |-> "none"]
  /\ lastG = [op |-> "init"]

NextG ==
  \/ Initialize \/ Invoke \/ LoadMemoryContext \/ ProcessMessage \/ ExecuteTools
  \/ PostProcess \/ AutoProcessConversation

SpecG == InitG /\ [][NextG]_vars

\* the nodes of the graph are scheduled as soon as they are reached; nothing
\* schedules the detached call
FairG ==
  SpecG /\ WF_vars(LoadMemoryContext) /\ WF_vars(ProcessMessage)
        /\ WF_vars(ExecuteTools) /\ WF_vars(PostProcess)

(* --------------- an embedding compressed and decompressed -------------- *)
(* inputs *)
EmbeddingLengths == {8, 12, 16, 24}
Components == {0 - 2, 0, 3}
Fillers == {5, 0 - 7}

\* the embeddings of a length: any components at the positions that
\* compressEmbedding keeps, one filler at the others
EmbeddingsOf(length) ==
  {[n \in 1..length |-> IF (n - 1) % 8 = 0 THEN kept[((n - 1) \div 8) + 1] ELSE filler] :
     kept \in [1..((length + 7) \div 8) -> Components], filler \in Fillers}

\* line 108 and the like: compressEmbedding(embedding) at a store
Compress ==
  /\ embeddingIn # <<>> /\ compressedOut = <<>>
  /\ compressedOut' = compressEmbedding(embeddingIn)
  /\ UNCHANGED <<embeddingIn, decompressedOut>>
  /\ UNCHANGED <<saverVars, fanVars, pgVars, memVars, graphVars, lateVars>>

\* line 208 and the like: decompressEmbedding(memory.embedding) at a search
Decompress ==
  /\ compressedOut # <<>> /\ decompressedOut = <<>>
  /\ decompressedOut' = decompressEmbedding(compressedOut)
  /\ UNCHANGED <<embeddingIn, compressedOut>>
  /\ UNCHANGED <<saverVars, fanVars, pgVars, memVars, graphVars, lateVars>>

InitC ==
  /\ checkpoints = {} /\ checkpointWrites = {} /\ last = [op |-> "init"]
  /\ putLog = [k \in Threads \X CheckpointIds |-> [written |-> FALSE]]
  /\ writeLog = {} /\ nPuts = 0 /\ nPutWrites = 0
  /\ NoCall
  /\ NoBot
  /\ NoTurn
  /\ NoGraph
  /\ NoRun
  /\ NoMemory
  /\ embeddingIn \in UNION {EmbeddingsOf(length) : length \in EmbeddingLengths}
  /\ compressedOut = <<>>
  /\ decompressedOut = <<>>

NextC == Compress \/ Decompress

SpecC == InitC /\ [][NextC]_vars

(* ------------------ the messages of the chats (bot.ts) ----------------- *)
Squares == {"s1", "s2"}
MemberIds == {"m1", "m2"}
DisplayNames == {"ann", "vanilla"}
ContentTypes == {"NONE", "IMAGE"}
MaxMessages == 2

\* the messages handed to the queue and not yet settled
Received == Len(chatLog) + Len(queue) + (IF chatCall.pc = "idle" THEN 0 ELSE 1)

\* bot.ts 77: the entry _addSquare registers
NewSquare ==
  [botId |-> "", conversation |-> <<>>, members |-> <<>>,
   store |-> [initialized |-> TRUE]]

\* bot.ts 68-75: _addSquare up to its await of store.initialize(); the calls
\* of _addSquare that wait there
addSquare(status, waiting, msg) ==
  IF msg.to \in DOMAIN status THEN waiting
  ELSE waiting \cup {[square |-> msg.to, by |-> msg.id]}

\* bot.ts 36-45: _addMember after its await of _getMember
addMember(square, memberId, displayName, botName) ==
  IF memberId \in DOMAIN square.members
  THEN [square EXCEPT !.members[memberId].name = displayName]
  ELSE [square EXCEPT
          !.members = (memberId :> [name |-> displayName, messages |-> <<>>]) @@ @,
          !.botId = IF displayName = botName THEN memberId ELSE @]

\* conversation.push(content) and the shift of the 101st
PushCapped(xs, x) ==
  IF Len(xs) + 1 > 100 THEN Tail(Append(xs, x)) ELSE Append(xs, x)

\* bot.ts 48-66
addMessage(square, msg) ==
  [square EXCEPT
     !.conversation = PushCapped(@, msg.id),
     !.members[msg.from].messages = PushCapped(@, msg.id)]

\* the call of _chat has settled with this outcome
Settled(msg, outcome) ==
  /\ chatLog' = Append(chatLog, [id |-> msg.id, to |-> msg.to, outcome |-> outcome])
  /\ chatCall' = [pc |-> "idle"]

\* bot.ts 174: an event of the LINE client is added to the queue
Receive ==
  /\ Received < MaxMessages
  /\ \E to \in Squares, from \in MemberIds, contentType \in ContentTypes,
        mentioned \in BOOLEAN :
       queue' = Append(queue, [id |-> Received + 1, to |-> to, from |-> from,
                               contentType |-> contentType, mentioned |-> mentioned])
  /\ UNCHANGED <<botStatus, chatCall, addSquares, chatLog>>
  /\ UNCHANGED <<saverVars, fanVars, pgVars, memVars, graphVars, embVars, turnVars>>

\* bot.ts 21 and 80-90: the queue runs one _chat at a time; _chat calls
\* _addSquare without awaiting it and awaits _getMember within _addMember
ChatStarts ==
  /\ chatCall.pc = "idle" /\ queue # <<>>
  /\ LET msg == Head(queue)
     IN /\ queue' = Tail(queue)
        /\ IF msg.contentType # "NONE"
           THEN /\ Settled(msg, "ignored")
                /\ UNCHANGED addSquares
           ELSE /\ addSquares' = addSquare(botStatus, addSquares, msg)
                /\ chatCall' = [pc |-> "getMember", message |-> msg]
                /\ UNCHANGED chatLog
  /\ UNCHANGED botStatus
  /\ UNCHANGED <<saverVars, fanVars, pgVars, memVars, graphVars, embVars, turnVars>>

\* bot.ts 75-77: store.initialize() resolves and _addSquare registers the entry
InitializeResolves ==
  /\ \E a \in addSquares :
       /\ botStatus' = (a.square :> NewSquare) @@ botStatus
       /\ addSquares' = addSquares \ {a}
  /\ UNCHANGED <<queue, chatCall, chatLog>>
  /\ UNCHANGED <<saverVars, fanVars, pgVars, memVars, graphVars, embVars, turnVars>>

\* memory.ts 46-50: the saveMemory of initialize rejects, and _addSquare with it
InitializeRejects ==
  /\ \E a \in addSquares : addSquares' = addSquares \ {a}
  /\ UNCHANGED <<botStatus, queue, chatCall, chatLog>>
  /\ UNCHANGED <<saverVars, fanVars, pgVars, memVars, graphVars, embVars, turnVars>>

\* bot.ts 34-46 and 90-94: _getMember resolves; _addMember reads
\* botStatus[squareChatId].members, which throws when the entry is missing
\* (caught at 133); then _addMessage, then the await of isMyMessage
GetMemberResolves ==
  /\ chatCall.pc = "getMember"
  /\ LET msg == chatCall.message
     IN IF msg.to \notin DOMAIN botStatus
        THEN /\ Settled(msg, "thrown")
             /\ UNCHANGED botStatus
        ELSE /\ \E displayName \in DisplayNames :
                  botStatus' =
                    [botStatus EXCEPT
                       ![msg.to] = addMessage(addMember(@, msg.from, displayName,
                                                        "vanilla"), msg)]
             /\ chatCall' = [chatCall EXCEPT !.pc = "isMyMessage"]
             /\ UNCHANGED chatLog
  /\ UNCHANGED <<queue, addSquares>>
  /\ UNCHANGED <<saverVars, fanVars, pgVars, memVars, graphVars, embVars, turnVars>>

\* bot.ts 94-101: a message of the bot itself, or one that neither mentions
\* the bot nor replies to it, is recorded only
IsMyMessageResolves ==
  /\ chatCall.pc = "isMyMessage"
  /\ \E isBotReply \in BOOLEAN :
       IF isBotReply \/ ~chatCall.message.mentioned
       THEN Settled(chatCall.message, "recorded")
       ELSE /\ chatCall' = [chatCall EXCEPT !.pc = "invoke"]
            /\ UNCHANGED chatLog
  /\ UNCHANGED <<botStatus, queue, addSquares>>
  /\ UNCHANGED <<saverVars, fanVars, pgVars, memVars, graphVars, embVars, turnVars>>

\* bot.ts 103-131: the run of the graph and the reply
InvokeResolves ==
  /\ chatCall.pc = "invoke"
  /\ Settled(chatCall.message, "replied")
  /\ UNCHANGED <<botStatus, queue, addSquares>>
  /\ UNCHANGED <<saverVars, fanVars, pgVars, memVars, graphVars, embVars, turnVars>>

InitA ==
  /\ checkpoints = {} /\ checkpointWrites = {} /\ last = [op |-> "init"]
  /\ putLog = [k \in Threads \X CheckpointIds |-> [written |-> FALSE]]
  /\ writeLog = {} /\ nPuts = 0 /\ nPutWrites = 0
  /\ NoCall
  /\ NoTurn
  /\ NoGraph
  /\ NoEmbedding
  /\ NoRun
  /\ NoMemory
  /\ botStatus = <<>>
  /\ queue = <<>>
  /\ chatCall = [pc |-> "idle"]
  /\ addSquares = {}
  /\ chatLog = <<>>

NextA ==
  \/ Receive \/ ChatStarts \/ InitializeResolves \/ InitializeRejects
  \/ GetMemberResolves \/ IsMyMessageResolves \/ InvokeResolves

SpecA == InitA /\ [][NextA]_vars

(* ------------------ the cleanup of the first load ---------------------- *)
\* the days the record is loaded on: 20 January, 31 March, 10 April, 15 May
LoadDays == {20, 90, 100, 135}

\* the memory of the age and the content given, as a store of that day wrote it
Aged(k, age, content, now) ==
  [id |-> Digits(k), content |-> content, timestamp |-> now - age,
   embedding |-> compressEmbedding(embedQuery(content))]

ShortText == <<1, 2, 3>>
LongText == <<1, 2, 3, 4, 5>>

\* the events a record may hold
EventsOn(now) ==
  <<Aged(1, 29, ShortText, now) @@ [participants |-> <<Ann>>, importance |-> 1],
    Aged(2, 29, ShortText, now) @@ [participants |-> <<Ann>>, importance |-> 4],
    Aged(3, 31, ShortText, now) @@ [participants |-> <<Ann>>, importance |-> 3],
    Aged(4, 31, ShortText, now) @@ [participants |-> <<Ann>>, importance |-> 4]>>

RECURSIVE Pick(_, _, _)
Pick(xs, mask, k) ==
  IF k > Len(xs) THEN <<>>
  ELSE (IF mask[k] THEN <<xs[k]>> ELSE <<>>) \o Pick(xs, mask, k + 1)

\* the buckets of facts a record may hold: of 5, 6 and 10 entries
BucketsOn(now) ==
  {[k \in 1..5 |-> Aged(k, 30 + k, ShortText, now) @@ [category |-> "facts"]],
   <<Aged(1, 31, ShortText, now) @@ [category |-> "facts"],
     Aged(2, 29, ShortText, now) @@ [category |-> "facts"],
     Aged(3, 40, LongText, now) @@ [category |-> "facts"],
     Aged(4, 31, ShortText, now) @@ [category |-> "facts"],
     Aged(5, 1, ShortText, now) @@ [category |-> "facts"],
     Aged(6, 2, LongText, now) @@ [category |-> "facts"]>>,
   [k \in 1..10 |->
      Aged(k, IF k = 3 THEN 31 ELSE k, IF k % 2 = 0 THEN LongText ELSE ShortText, now)
        @@ [category |-> "facts"]]}

RecordsOn(now) ==
  {[personal |-> (Ann :> [facts |-> bucket, traits |-> <<>>, preferences |-> <<>>,
                          history |-> <<>>]),
    relationships |-> <<>>,
    events |-> Pick(EventsOn(now), mask, 1),
    preferences |-> <<>>] :
     bucket \in BucketsOn(now), mask \in [1..4 -> BOOLEAN]}

\* lines 53-67: the first operation on the handle loads the record
LoadMemory ==
  /\ ~memoryLoaded
  /\ LET l == loadMemoryIfNeeded(memory, memoryLoaded, file, clock)
     IN /\ memory' = l.memory
        /\ lastM' = [op |-> "load", now |-> clock, read |-> l.read, failed |-> l.failed]
  /\ memoryLoaded' = TRUE
  /\ nOps' = nOps + 1
  /\ UNCHANGED <<file, clock, relLog>>
  /\ UNCHANGED <<saverVars, fanVars, pgVars, otherVars>>

InitK ==
  /\ checkpoints = {} /\ checkpointWrites = {} /\ last = [op |-> "init"]
  /\ putLog = [k \in Threads \X CheckpointIds |-> [written |-> FALSE]]
  /\ writeLog = {} /\ nPuts = 0 /\ nPutWrites = 0
  /\ NoCall
  /\ NoBot
  /\ NoTurn
  /\ NoGraph
  /\ NoEmbedding
  /\ NoRun
  /\ memory = EmptyMemory
  /\ memoryLoaded = FALSE
  /\ clock \in LoadDays
  /\ file \in RecordsOn(clock)
  /\ lastM = [op |-> "init"]
  /\ relLog = <<>>
  /\ nOps = 0

NextK == LoadMemory

SpecK == InitK /\ [][NextK]_vars

(* ------------- the turns of one chat and the calls on its store -------- *)
MaxTurns == 2
MaxCalls == 4

\* main.ts 208-214: the content and the importance the emotion tool stores
reactionContent(botName, reason) == botName \o <<60>> \o reason
emotionImportance(reaction) ==
  IF reaction \in {3, 2, 4, 5} THEN 3 ELSE IF reaction = 6 THEN 2 ELSE 1

\* lines 176-192 after the await of embedQuery
EventPushed(m, content, participants, importance, now) ==
  [m EXCEPT !.events =
     CapEvents(Append(@, MemoryOf(content, now)
                           @@ [participants |-> participants,
                               importance |-> importance]))]

\* lines 100-119 after the await of embedQuery
PersonalPushed(m, userName, fact, category, now) ==
  [m EXCEPT !.personal[userName][category] =
     CapPersonal(Append(@, MemoryOf(fact, now) @@ [category |-> category]))]

\* lines 78-85: the record of the user is created before the duplicate check
PersonalCreated(m, userName) ==
  [m EXCEPT !.personal = (userName :> UserMemoryOf(m, userName)) @@ @]

\* a call on the store that has just been made
Call(kind, detached, content, participants, importance) ==
  [kind |-> kind, pc |-> "called", detached |-> detached, content |-> content,
   participants |-> participants, importance |-> importance,
   snapshot |-> NoFile, savedAt |-> 0, out |-> "", id |-> <<>>]

\* the call op after its await of loadMemoryIfNeeded, on the memory m: up to
\* its next await or its return
Entered(op, m) ==
  CASE op.kind = "getRelevantContext" ->
         [memory |-> m,
          op |-> IF /\ op.content.userId \notin DOMAIN m.personal
                    /\ RelationshipAt(m.relationships,
                                      relationshipKey(op.content.userId, Vanilla)) = 0
                 THEN [op EXCEPT !.pc = "done"]
                 ELSE [op EXCEPT !.pc = "embedding"]]
    [] op.kind = "storeEventMemory" ->
         [memory |-> m,
          op |-> IF isDuplicate(m.events, op.content)
                 THEN [op EXCEPT !.pc = "done", !.out = "duplicate"]
                 ELSE [op EXCEPT !.pc = "embedding"]]
    [] op.kind = "storePersonalMemory" ->
         [memory |-> PersonalCreated(m, Ann),
          op |-> IF isDuplicate(CategoryArrayOf(UserMemoryOf(m, Ann), "facts"),
                                op.content)
                 THEN [op EXCEPT !.pc = "done", !.out = "duplicate"]
                 ELSE [op EXCEPT !.pc = "embedding"]]
    [] op.kind = "autoProcessConversation" ->
         [memory |-> m, op |-> [op EXCEPT !.pc = "chatting"]]

\* the call op is made on the handle: it awaits loadMemoryIfNeeded, which
\* reads the file or returns at once
Made(op) ==
  LET l == loadMemoryIfNeeded(memory, memoryLoaded, file, clock)
  IN IF l.read
     THEN [memory |-> memory, op |-> [op EXCEPT !.pc = "reading"],
           reads |-> io.reads + 1]
     ELSE Entered(op, memory) @@ [reads |-> io.reads]

\* the turn goes on when the call it awaits has returned
Resumed(i, op) ==
  IF turn.awaits = i /\ op.pc = "done"
  THEN [turn EXCEPT !.pc = "processMessage", !.awaits = 0]
  ELSE turn

Calls == Len(ops)

\* the call r.op is made in the turn t, which awaits it in the node given
Awaiting(t, r, awaitedIn) ==
  /\ ops' = Append(ops, r.op)
  /\ memory' = r.memory
  /\ io' = [io EXCEPT !.reads = r.reads]
  /\ turn' = IF r.op.pc = "done"
             THEN [t EXCEPT !.pc = "processMessage", !.awaits = 0]
             ELSE [t EXCEPT !.pc = awaitedIn, !.awaits = Calls + 1]

\* the call r.op is made in the turn t, which does not await it
Detaching(t, r) ==
  /\ ops' = Append(ops, r.op)
  /\ memory' = r.memory
  /\ io' = [io EXCEPT !.reads = r.reads]
  /\ turn' = t

\* bot.ts 174 and 103, graph.ts 27-33: the queue starts the next _chat when
\* the one before has settled; the run begins with getRelevantContext
TurnBegins ==
  /\ turn.pc = "idle" /\ turn.n < MaxTurns /\ Calls < MaxCalls
  /\ Awaiting([turn EXCEPT !.n = @ + 1, !.toolCallCount = 0],
              Made(Call("getRelevantContext", FALSE, [userId |-> Ann], <<>>, 0)),
              "loadMemoryContext")
  /\ UNCHANGED <<memoryLoaded, file, clock, lastM, relLog, nOps>>
  /\ UNCHANGED <<saverVars, fanVars, pgVars, graphVars, embVars, botVars>>

(* inputs *)
Reactions == {3, 7}
Reasons == {<<1, 2, 3>>}
ToolCalls ==
  {[tool |-> "emotion", reaction |-> reaction, reason |-> reason] :
     reaction \in Reactions, reason \in Reasons}
    \cup {[tool |-> "rememberEvent", content |-> <<7, 8>>, importance |-> 2],
          [tool |-> "rememberPersonal", fact |-> <<1, 2, 3, 4, 5>>]}

\* graph.ts 46-108 with the tools of main.ts 203-228, 267-278 and 314-325:
\* the model call rejects, or its response carries a tool call and the limit
\* is not reached, or the run goes to postProcess, which detaches
\* autoProcessConversation and ends the turn
ModelResponds ==
  /\ turn.pc = "processMessage"
  /\ \/ /\ turn' = [turn EXCEPT !.pc = "idle"]
        /\ UNCHANGED <<ops, memory, io>>
     \/ /\ Calls < MaxCalls /\ ~toolCallLimit(turn)
        /\ \E toolCall \in ToolCalls :
             LET next == [turn EXCEPT !.toolCallCount = @ + 1]
             IN CASE toolCall.tool = "emotion" ->
                       Detaching(next,
                                 Made(Call("storeEventMemory", TRUE,
                                           reactionContent(Bot, toolCall.reason),
                                           <<Bot>>,
                                           emotionImportance(toolCall.reaction))))
                  [] toolCall.tool = "rememberEvent" ->
                       Awaiting(next,
                                Made(Call("storeEventMemory", FALSE, toolCall.content,
                                          <<Ann>>, toolCall.importance)),
                                "executeTools")
                  [] toolCall.tool = "rememberPersonal" ->
                       Awaiting(next,
                                Made(Call("storePersonalMemory", FALSE, toolCall.fact,
                                          <<>>, 0)),
                                "executeTools")
     \/ /\ Calls < MaxCalls
        /\ Detaching([turn EXCEPT !.pc = "idle"],
                     Made(Call("autoProcessConversation", TRUE, <<7, 8>>, <<>>, 0)))
  /\ UNCHANGED <<memoryLoaded, file, clock, lastM, relLog, nOps>>
  /\ UNCHANGED <<saverVars, fanVars, pgVars, graphVars, embVars, botVars>>

\* lines 57-65: readFile resolves or rejects; the record is parsed and
\* cleaned, or the failure is caught; then the call goes on
ReadResolves ==
  /\ \E i \in DOMAIN ops :
       /\ ops[i].pc = "reading"
       /\ LET l == loadMemoryIfNeeded(memory, FALSE, file, clock)
              e == Entered(ops[i], l.memory)
          IN /\ memory' = e.memory
             /\ memoryLoaded' = l.loaded
             /\ ops' = [ops EXCEPT ![i] = e.op]
             /\ io' = [io EXCEPT !.cleanups = @ + (IF l.failed THEN 0 ELSE 1),
                                 !.failed = @ + (IF l.failed THEN 1 ELSE 0)]
             /\ turn' = Resumed(i, e.op)
             /\ lastM' = [op |-> "load", call |-> i, failed |-> l.failed,
                          before |-> memory]
  /\ UNCHANGED <<file, clock, relLog, nOps>>
  /\ UNCHANGED <<saverVars, fanVars, pgVars, graphVars, embVars, botVars>>

\* the memory after the push of the call op, made at the time now
Pushed(op, m, now) ==
  CASE op.kind = "storeEventMemory" ->
         EventPushed(m, op.content, op.participants, op.importance, now)
    [] op.kind = "storePersonalMemory" ->
         PersonalPushed(m, Ann, op.content, "facts", now)
    [] op.kind = "autoProcessConversation" ->
         RelationshipStored(m, Bot, op.content, AsText("positive"), "neutral",
                            now, TRUE).memory

\* embedQuery resolves: a search goes on to its end; a store pushes its
\* memory, takes the JSON text of this.memory and awaits writeFile (69-73)
EmbedResolves ==
  /\ \E i \in DOMAIN ops :
       /\ ops[i].pc = "embedding"
       /\ IF ops[i].kind = "getRelevantContext"
          THEN /\ ops' = [ops EXCEPT ![i].pc = "done", ![i].out = "context"]
               /\ turn' = Resumed(i, ops'[i])
               /\ UNCHANGED <<memory, clock>>
          ELSE /\ memory' = Pushed(ops[i], memory, clock)
               /\ ops' = [ops EXCEPT ![i].pc = "writing", ![i].snapshot = memory',
                                     ![i].savedAt = clock, ![i].id = Digits(clock)]
               /\ clock' = clock + 1
               /\ UNCHANGED turn
  /\ UNCHANGED <<memoryLoaded, file, lastM, relLog, nOps, io>>
  /\ UNCHANGED <<saverVars, fanVars, pgVars, graphVars, embVars, botVars>>

\* embedQuery rejects, and the call with it
EmbedRejects ==
  /\ \E i \in DOMAIN ops :
       /\ ops[i].pc = "embedding"
       /\ ops' = [ops EXCEPT ![i].pc = "done", ![i].out = "error"]
       /\ turn' = Resumed(i, ops'[i])
  /\ UNCHANGED <<memory, memoryLoaded, file, clock, lastM, relLog, nOps, io>>
  /\ UNCHANGED <<saverVars, fanVars, pgVars, graphVars, embVars, botVars>>

\* lines 417-444 and 491-493: the evaluation arrives; with a summary to
\* store, storeRelationshipMemory creates its bucket and awaits embedQuery
ChatResolves ==
  /\ \E i \in DOMAIN ops :
       /\ ops[i].pc = "chatting"
       /\ \E shouldStore \in BOOLEAN :
            IF shouldStore
            THEN /\ memory' = RelationshipStored(memory, Bot, ops[i].content,
                                                 AsText("positive"), "neutral",
                                                 clock, FALSE).memory
                 /\ ops' = [ops EXCEPT ![i].pc = "embedding"]
            ELSE /\ ops' = [ops EXCEPT ![i].pc = "done"]
                 /\ UNCHANGED memory
  /\ UNCHANGED <<memoryLoaded, file, clock, lastM, relLog, nOps, io, turn>>
  /\ UNCHANGED <<saverVars, fanVars, pgVars, graphVars, embVars, botVars>>

\* lines 69-73: a writeFile resolves; the file holds the text it was given.
\* Nothing orders the writes that are under way at the same time.
WriteResolves ==
  /\ \E i \in DOMAIN ops :
       /\ ops[i].pc = "writing"
       /\ file' = ops[i].snapshot
       /\ ops' = [ops EXCEPT ![i].pc = "done", ![i].out = "stored"]
       /\ turn' = Resumed(i, ops'[i])
       /\ lastM' = [op |-> "write", call |-> i]
  /\ UNCHANGED <<memory, memoryLoaded, clock, relLog, nOps, io>>
  /\ UNCHANGED <<saverVars, fanVars, pgVars, graphVars, embVars, botVars>>

\* a record an earlier process has left: a fact of the user, an event of no
\* importance that is older than a month, and an important one
RecordLeft ==
  [personal |-> (Ann :> [facts |-> <<StoredMemory(80) @@ [category |-> "facts"]>>,
                         traits |-> <<>>, preferences |-> <<>>, history |-> <<>>]),
   relationships |-> <<>>,
   events |-> <<StoredMemory(60) @@ [participants |-> <<Ann>>, importance |-> 1],
                StoredMemory(61) @@ [participants |-> <<Ann>>, importance |-> 5]>>,
   preferences |-> <<>>]

\* the store of a chat after initialize(): the file was missing and holds
\* the empty record now, or it is there and has not been read
InitI ==
  /\ checkpoints = {} /\ checkpointWrites = {} /\ last = [op |-> "init"]
  /\ putLog = [k \in Threads \X CheckpointIds |-> [written |-> FALSE]]
  /\ writeLog = {} /\ nPuts = 0 /\ nPutWrites = 0
  /\ NoCall
  /\ NoBot
  /\ NoGraph
  /\ NoEmbedding
  /\ NoRun
  /\ memory = EmptyMemory
  /\ \/ file = EmptyMemory /\ memoryLoaded = TRUE
     \/ file \in {Unparsable, RecordLeft} /\ memoryLoaded = FALSE
  /\ clock = 100
  /\ lastM = [op |-> "init"]
  /\ relLog = <<>>
  /\ nOps = 0
  /\ turn = [pc |-> "idle", n |-> 0, toolCallCount |-> 0, awaits |-> 0]
  /\ ops = <<>>
  /\ io = [reads |-> 0, cleanups |-> 0, failed |-> 0]

NextI ==
  \/ TurnBegins \/ ModelResponds \/ ReadResolves \/ EmbedResolves \/ EmbedRejects
  \/ ChatResolves \/ WriteResolves

SpecI == InitI /\ [][NextI]_vars

(* ------------------------- helpers of the claims ----------------------- *)
GetAfterPutReturnsIt ==
  LET r == getTuple(last.thread_id, last.checkpoint_ns, NoId)
      p == last.parent
  IN /\ r.status = "ok"
     /\ r.checkpoint = last.checkpoint
     /\ r.metadata = last.metadata
     /\ (p = NoId => ~r.parentConfig.present)
     /\ (p # NoId =>
           /\ r.parentConfig = [present |-> TRUE, thread_id |-> last.thread_id,
                                checkpoint_ns |-> last.checkpoint_ns,
                                checkpoint_id |-> p]
           /\ (putLog[<<last.thread_id, p>>].written =>
                 LET q == getTuple(r.parentConfig.thread_id,
                                   r.parentConfig.checkpoint_ns,
                                   r.parentConfig.checkpoint_id)
                 IN /\ q.status = "ok"
                    /\ q.checkpoint = putLog[<<last.thread_id, p>>].checkpoint))

\* C1: a get(T, ns) without a checkpointId right after
\* put(T, ns, parent=p, cp, md) returns cp and md, with no parent reference
\* when p is none and the reference (T, ns, p) otherwise, and a get on that
\* reference returns the checkpoint put under id p.
C1_GetAfterPut == last.op = "put" => GetAfterPutReturnsIt

C1_Witness ==
  /\ last.op = "put"
  /\ last.parent # NoId
  /\ putLog[<<last.thread_id, last.parent>>].written
  /\ NewestInThread(last.thread_id, CheckpointIdOf(last.checkpoint))
  /\ Cardinality(ItemsOfThread(last.thread_id)) = 2

MaxIdItem(S) == CHOOSE i \in S : \A j \in S : j.checkpoint_id <= i.checkpoint_id

\* C2: on a thread holding checkpoints in more than one namespace,
\* get(T, ns) without a checkpointId returns the checkpoint with the greatest
\* id among those of namespace ns, and notFound only when ns holds none.
C2_LatestOfNamespace ==
  \A t \in Threads, ns \in Namespaces :
    (\E i, j \in ItemsOfThread(t) : i.checkpoint_ns # j.checkpoint_ns) =>
      LET r == getTuple(t, ns, NoId)
      IN IF ItemsOf(t, ns) = {}
         THEN r.status = "undefined"
         ELSE /\ r.status = "ok"
              /\ r.config.checkpoint_ns = ns
              /\ r.config.checkpoint_id = MaxIdItem(ItemsOf(t, ns)).checkpoint_id
              /\ r.checkpoint = putLog[<<t, r.config.checkpoint_id>>].checkpoint

IsChain(S) ==
  /\ S # {}
  /\ \A i \in S :
       IF \A j \in S : i.checkpoint_id <= j.checkpoint_id
       THEN i.parent_checkpoint_id = NoId
       ELSE /\ \E j \in S : j.checkpoint_id = i.parent_checkpoint_id
            /\ i.parent_checkpoint_id < i.checkpoint_id
            /\ \A j \in S : j.checkpoint_id < i.checkpoint_id
                              => j.checkpoint_id <= i.parent_checkpoint_id

\* C3: when the checkpoints put under (T, ns) form a parent chain of length
\* N, list(T, ns) with no limit and no before yields exactly those N
\* checkpoints, each once, in strictly descending checkpoint-id order.
C3_ListYieldsChain ==
  \A t \in Threads, ns \in Namespaces :
    IsChain(ItemsOf(t, ns)) =>
      LET r == list(t, ns, 0, NoId)
      IN /\ r.status = "ok"
         /\ Len(r.items) = Cardinality(ItemsOf(t, ns))
         /\ \A k \in 1..Len(r.items) :
              /\ \E i \in ItemsOf(t, ns) : r.items[k] = TupleOf(i)
              /\ k > 1 => r.items[k].config.checkpoint_id
                            < r.items[k - 1].config.checkpoint_id

\* C4: list(T, ns, before=b) completes without error and yields, newest
\* first, every checkpoint of the thread with an id strictly smaller than b
\* and none with an id equal to or greater than b.
C4_ListBefore ==
  \A t \in Threads, ns \in Namespaces, b \in CheckpointIds :
    GetCheckpoint(t, b) # {} =>
    LET r == list(t, ns, 0, b)
    IN /\ r.status = "ok"
       /\ {r.items[k].config.checkpoint_id : k \in 1..Len(r.items)}
            = {i.checkpoint_id : i \in {j \in ItemsOfThread(t) : j.checkpoint_id < b}}
       /\ \A k \in 2..Len(r.items) :
            r.items[k].config.checkpoint_id < r.items[k - 1].config.checkpoint_id

\* C5: get(T, ns, id), get(T, ns) and list(T, ns) never return a checkpoint
\* that was put under a different namespace of the same thread.
C5_NamespaceIsolation ==
  \A t \in Threads, ns \in Namespaces :
    /\ \A id \in {NoId} \cup CheckpointIds :
         LET r == getTuple(t, ns, id)
         IN r.status = "ok" =>
              putLog[<<t, r.config.checkpoint_id>>].checkpoint_ns = ns
    /\ LET l == list(t, ns, 0, NoId)
       IN \A k \in 1..Len(l.items) :
            putLog[<<t, l.items[k].config.checkpoint_id>>].checkpoint_ns = ns

Observed(r) ==
  IF r.status = "ok"
  THEN <<r.checkpoint, r.metadata, r.parentConfig>>
  ELSE <<"undefined">>

\* C6: once a checkpoint is written under (threadId, namespace,
\* checkpointId), no later put changes the payload, metadata or parent that
\* get returns for that key.
C6_Immutable ==
  [][\A t \in Threads, ns \in Namespaces, id \in CheckpointIds :
       (putLog[<<t, id>>].written /\ putLog[<<t, id>>].checkpoint_ns = ns) =>
         Observed(getTuple(t, ns, id))' = Observed(getTuple(t, ns, id))]_vars

TagsOf(call) == <<dumpsTyped(call.checkpoint)[1], dumpsTyped(call.metadata)[1]>>

\* C10: a put whose checkpoint and metadata serialize to different type tags
\* fails and leaves both tables unchanged; a put whose tags agree writes
\* exactly one record, the one of its key.
C10_PutRejectsMismatch ==
  [][/\ (last'.op = "putFailed" =>
           /\ TagsOf(last')[1] # TagsOf(last')[2]
           /\ UNCHANGED <<checkpoints, checkpointWrites>>)
     /\ (nPuts' # nPuts =>
           /\ last'.op = "put"
           /\ TagsOf(last')[1] = TagsOf(last')[2]
           /\ \E item \in checkpoints' :
                /\ item.thread_id = last'.thread_id
                /\ item.checkpoint_id = CheckpointIdOf(last'.checkpoint)
                /\ loadsTyped(item.type, item.metadata) = last'.metadata
                /\ checkpoints' \ checkpoints \subseteq {item}
                /\ checkpoints \ checkpoints' \subseteq
                     GetCheckpoint(item.thread_id, item.checkpoint_id)
                /\ Cardinality(GetCheckpoint(item.thread_id, item.checkpoint_id)') = 1)]_vars

C10_Witness == last.op = "putFailed" /\ checkpoints # {}

(* ---------------------------- pending writes --------------------------- *)
OwnerStored(call) ==
  \E i \in GetCheckpoint(call.thread_id, call.checkpoint_id) :
    i.checkpoint_ns = call.checkpoint_ns

OfTask(pendingWrites, taskId) == SelectSeq(pendingWrites, LAMBDA e : e[1] = taskId)

\* C7: putWrites(T, ns, c, taskId, writes) followed by get(T, ns, c) returns
\* one pending-write entry (taskId, channel, value) for every submitted
\* write, each value equal to the value submitted.
C7_WritesRoundTrip ==
  (last.op = "putWrites" /\ OwnerStored(last)) =>
    LET r == getTuple(last.thread_id, last.checkpoint_ns, last.checkpoint_id)
    IN /\ r.status = "ok"
       /\ \A i \in 1..Len(last.writes) :
            \E k \in 1..Len(r.pendingWrites) :
              r.pendingWrites[k] = <<last.taskId, last.writes[i][1], last.writes[i][2]>>

\* C8: the pending writes get returns are grouped by task and, within the
\* task that submitted a write list (of any length), appear in the order of
\* submission.
C8_WritesInTaskOrder ==
  (last.op = "putWrites" /\ OwnerStored(last) /\ last.previous = <<>>) =>
    LET r == getTuple(last.thread_id, last.checkpoint_ns, last.checkpoint_id)
        pw == r.pendingWrites
        mine == OfTask(pw, last.taskId)
    IN /\ r.status = "ok"
       /\ Len(mine) = Len(last.writes)
       /\ \A i \in 1..Len(mine) : mine[i][2] = last.writes[i][1]
       /\ \A k, m, l \in 1..Len(pw) :
            (k < m /\ m < l /\ pw[k][1] = pw[l][1]) => pw[m][1] = pw[k][1]

\* C9: putWrites called again for the same (thread, checkpoint, namespace,
\* taskId) with a write list of the same length leaves exactly one stored
\* write per (taskId, sequenceIndex), holding the second call's channel and
\* value, and a following get returns no duplicated entry.
C9_RewriteOverwrites ==
  (last.op = "putWrites" /\ Len(last.previous) = Len(last.writes)) =>
    LET pk == getWritePk(last.thread_id, last.checkpoint_id, last.checkpoint_ns)
        stored == TaskItems(pk, last.taskId)
        sk(i) == last.taskId \o separator \o Digits(i - 1)
    IN /\ \A i \in 1..Len(last.writes) :
            /\ Cardinality({w \in stored : w.task_index = sk(i)}) = 1
            /\ \A w \in stored :
                 w.task_index = sk(i) =>
                   /\ w.channel = last.writes[i][1]
                   /\ w.type = last.writes[i][2].kind
                   /\ Unbytes(w.valu) = last.writes[i][2].body
       /\ \A w1, w2 \in stored : w1.task_index = w2.task_index => w1 = w2
       /\ OwnerStored(last) =>
            Len(OfTask(getTuple(last.thread_id, last.checkpoint_ns,
                                last.checkpoint_id).pendingWrites, last.taskId))
              = Cardinality({w.task_index : w \in stored})

C9_Witness ==
  /\ last.op = "putWrites"
  /\ Len(last.previous) = MaxWrites
  /\ Len(last.writes) = MaxWrites
  /\ last.previous # last.writes
  /\ OwnerStored(last)

\* C11: putWrites returns, with success or with failure, only when none of
\* the batches it submitted is still in flight.
C11_ReturnsAfterAllBatches ==
  awaited \in {"resolved", "rejected"} =>
    \A b \in 1..Len(requests) : requests[b] # "pending"

(* --------------------------- retention claims -------------------------- *)
RowsOf(table, t) == {r \in table : r.thread_id = t}

Completed(fn) ==
  /\ run.pc = "idle"
  /\ "status" \in DOMAIN run
  /\ run.status = "ok"
  /\ run.fn = fn

\* every checkpoint of t carries a timestamp, all before the cutoff
AllOlder(t, before, retention_days) ==
  /\ RowsOf(before.checkpoints, t) # {}
  /\ \A r \in RowsOf(before.checkpoints, t) :
       /\ r.created_at.format # "null"
       /\ r.created_at.at < CutoffTime(retention_days)

\* some checkpoint of t carries a timestamp after the cutoff
SomeNewer(t, before, retention_days) ==
  \E r \in RowsOf(before.checkpoints, t) :
     /\ r.created_at.format # "null"
     /\ r.created_at.at > CutoffTime(retention_days)

\* C12: when cleanup_checkpoints_by_age(d) has returned, a thread all of
\* whose checkpoints were older than now - d has no checkpoint and no pending
\* write left, and the returned checkpoint and write counts are the numbers
\* of rows the call deleted.
C12_ByAgeReapsOldThreads ==
  Completed("by_age") =>
    /\ \A t \in Threads :
         AllOlder(t, run.before, run.retention_days) =>
           /\ RowsOf(pg_checkpoints, t) = {}
           /\ RowsOf(checkpoint_writes, t) = {}
    /\ run.checkpoints_deleted = Cardinality(run.before.checkpoints \ pg_checkpoints)
    /\ run.writes_deleted = Cardinality(run.before.writes \ checkpoint_writes)

C12_Witness ==
  /\ Completed("by_age")
  /\ run.checkpoints_deleted > 0 /\ run.writes_deleted > 0
  /\ \A t \in Threads : AllOlder(t, run.before, run.retention_days)

\* C13: when either retention function has returned, a thread that had a
\* checkpoint newer than the cutoff has lost none of its checkpoints and none
\* of its pending writes.
C13_RecentThreadUntouched ==
  \A fn \in {"old", "by_age"} :
    Completed(fn) =>
      \A t \in Threads :
        SomeNewer(t, run.before, run.retention_days) =>
          /\ RowsOf(pg_checkpoints, t) = RowsOf(run.before.checkpoints, t)
          /\ RowsOf(checkpoint_writes, t) = RowsOf(run.before.writes, t)

\* C14: during and after a run of cleanup_checkpoints_by_age, a thread whose
\* checkpoints the run has deleted has no pending write left.
C14_WritesGoBeforeCheckpoints ==
  (run.pc = "by_age" \/ Completed("by_age")) =>
    \A t \in Threads :
      (RowsOf(run.before.checkpoints, t) # {} /\ RowsOf(pg_checkpoints, t) = {}) =>
        RowsOf(checkpoint_writes, t) = {}

C14_Witness ==
  /\ run.pc = "by_age"
  /\ StatementAt(run.at) = "checkpoints"
  /\ \E t \in run.old_threads :
       /\ RowsOf(run.before.writes, t) # {}
       /\ RowsOf(checkpoint_writes, t) = {}
       /\ RowsOf(pg_checkpoints, t) # {}

\* the call that just returned follows a successful call of the same
\* function with the same retention_days
SecondRun ==
  /\ run.pc = "idle"
  /\ "status" \in DOMAIN run
  /\ run.status = "ok"
  /\ run.after.status = "ok"
  /\ run.after.fn = run.fn
  /\ run.after.retention_days = run.retention_days

\* C15: a second run with the same retention_days right after a successful
\* run deletes no row and returns zero counts.
C15_Idempotent ==
  SecondRun =>
    /\ Tables = run.before
    /\ run.checkpoints_deleted = 0
    /\ run.writes_deleted = 0
    /\ run.blobs_deleted = 0

C15_Witness ==
  /\ SecondRun
  /\ run.fn = "by_age"
  /\ run.after.before.checkpoints # run.before.checkpoints
  /\ run.after.before.writes # run.before.writes
  /\ pg_checkpoints # {}

(* ----------------------------- memory claims --------------------------- *)
Items(xs) == {xs[i] : i \in DOMAIN xs}

\* the contents the claim calls duplicates: equal once lower-cased, or a
\* word-set Jaccard similarity above 0.8
DuplicateOf(a, b) ==
  \/ toLowerCase(a) = toLowerCase(b)
  \/ Cardinality(WordSet(toLowerCase(a)) \cap WordSet(toLowerCase(b))) * 10
       > Cardinality(WordSet(toLowerCase(a)) \cup WordSet(toLowerCase(b))) * 8

\* the bucket the last store call was checked against, as the call found it
BucketBefore ==
  IF lastM.op = "storePersonal"
  THEN lastM.before.personal[lastM.userName][lastM.category]
  ELSE lastM.before.events

\* C16: a storePersonal or storeEvent call whose content duplicates an entry
\* of its bucket returns "duplicate", changes no bucket, and calls neither
\* the embedding provider nor the write of the record.
C16_DuplicateChangesNothing ==
  (/\ lastM.op \in {"storePersonal", "storeEvent"}
   /\ \E e \in Items(BucketBefore) : DuplicateOf(e.content, lastM.content))
    => /\ lastM.out = "duplicate"
       /\ memory = lastM.before
       /\ file = lastM.before
       /\ ~lastM.embedded
       /\ ~lastM.saved

C16_Witness ==
  /\ lastM.op = "storePersonal"
  /\ lastM.out = "duplicate"
  /\ \E e \in Items(BucketBefore) :
       /\ e.content # lastM.content
       /\ toLowerCase(e.content) = toLowerCase(lastM.content)

\* C17: every (user, category) bucket holds at most 10 entries, and a
\* storePersonal call that overflows the cap keeps the 10 entries with the
\* latest timestamps, the new entry among them.
C17_PersonalCap ==
  /\ \A u \in Users, c \in Categories :
       Len(memory.personal[u][c]) <= MAX_MEMORIES_PER_CATEGORY
  /\ (/\ lastM.op = "storePersonal"
      /\ lastM.out # "duplicate"
      /\ Len(BucketBefore) >= MAX_MEMORIES_PER_CATEGORY)
       => LET now == Items(memory.personal[lastM.userName][lastM.category])
              gone == Items(BucketBefore) \ now
          IN /\ Cardinality(now) = MAX_MEMORIES_PER_CATEGORY
             /\ \E e \in now : e.id = lastM.out /\ e.content = lastM.content
             /\ \A e \in now : e \in Items(BucketBefore) \/ e.id = lastM.out
             /\ \A e \in now, g \in gone : e.timestamp >= g.timestamp

C17_Witness ==
  /\ lastM.op = "storePersonal"
  /\ lastM.out # "duplicate"
  /\ Len(BucketBefore) = MAX_MEMORIES_PER_CATEGORY
  /\ Items(BucketBefore) \ Items(memory.personal[lastM.userName][lastM.category]) # {}

LastOf(xs, n) == IF Len(xs) <= n THEN xs ELSE SubSeq(xs, Len(xs) - n + 1, Len(xs))

\* C18: a (user, agent) bucket holds at most 20 interactions, they are the
\* most recently stored ones in the order they were stored, and
\* storeRelationship never answers "duplicate".
C18_RelationshipFifo ==
  /\ \A i \in DOMAIN memory.relationships :
       LET r == memory.relationships[i]
       IN /\ Len(r.interactions) <= MaxInteractions
          /\ IdsOf(r.interactions) = LastOf(relLog[r.userName], MaxInteractions)
  /\ lastM.op = "storeRelationship" =>
       /\ lastM.out # "duplicate"
       /\ lastM.out = relLog[lastM.userName][Len(relLog[lastM.userName])]

C18_Witness ==
  /\ lastM.op = "storeRelationship"
  /\ Len(relLog[lastM.userName]) > MaxInteractions + 1
  /\ \E i \in DOMAIN lastM.before.relationships :
       /\ lastM.before.relationships[i].userName = lastM.userName
       /\ \E e \in Items(lastM.before.relationships[i].interactions) :
            e.content = lastM.content

\* C19: the event list holds at most 30 events, and when a storeEvent call
\* overflows the cap no removed event is more important than a kept one.
C19_EventCap ==
  /\ Len(memory.events) <= MaxEvents
  /\ (/\ lastM.op = "storeEvent"
      /\ lastM.out # "duplicate"
      /\ Len(lastM.before.events) >= MaxEvents)
       => LET kept == Items(memory.events)
              removed ==
                {e.importance : e \in Items(lastM.before.events) \ kept}
                  \cup (IF \E e \in kept : e.id = lastM.out THEN {}
                        ELSE {lastM.importance})
          IN /\ removed # {}
             /\ \A r \in removed, e \in kept : r <= e.importance

C19_Witness ==
  /\ lastM.op = "storeEvent"
  /\ lastM.out # "duplicate"
  /\ Len(lastM.before.events) = MaxEvents
  /\ \E e \in Items(memory.events) : e.id = lastM.out
  /\ \E e \in Items(lastM.before.events) \ Items(memory.events) :
       e.importance < lastM.importance

PersonalIds(u) ==
  UNION {{e.id : e \in Items(memory.personal[u][c])} : c \in Categories}

\* C20: a search with the user-name filter U returns no personal memory of
\* another user and no event whose participants do not contain U.
C20_SearchFilter ==
  (lastM.op = "search" /\ lastM.userName # NoUser) =>
    \A h \in Items(lastM.out) :
      /\ h.type = "personal" => h.id \in PersonalIds(lastM.userName)
      /\ h.type = "event" =>
           \E e \in Items(memory.events) :
             e.id = h.id /\ Contains(e.participants, lastM.userName)

C20_Witness ==
  /\ lastM.op = "search"
  /\ lastM.userName = Ann
  /\ \E h \in Items(lastM.out) : h.type = "personal"
  /\ \E h \in Items(lastM.out) : h.type = "event"
  /\ PersonalIds(Anna) # {}
  /\ \E e \in Items(memory.events) : ~Contains(e.participants, Ann)

(* ----------------------------- search claims --------------------------- *)
\* the (user, agent) pairs that hold the interaction with this id
PairsOf(id) ==
  {r \in Items(memory.relationships) : \E e \in Items(r.interactions) : e.id = id}

\* C21: a search with the user-name filter U returns a relationship
\* interaction only when it belongs to a (user, agent) pair whose user or
\* agent is exactly U; a pair whose names merely contain U contributes nothing.
C21_RelationshipFilterExact ==
  (lastM.op = "search" /\ lastM.userName # NoUser) =>
    \A h \in Items(lastM.out) :
      h.type = "relationship" =>
        \A r \in PairsOf(h.id) :
          r.userName = lastM.userName \/ r.botName = lastM.userName

\* every stored memory that passes the filter of the last search, with the
\* similarity the search computes for it
PassesFilter(userName) ==
  LET queryEmbedding == embedQuery(lastM.query)
      personal ==
        UNION {UNION {Items(Hits("personal", c, memory.personal[u][c], queryEmbedding)) :
                        c \in Categories} :
                 u \in {x \in Users : userName = NoUser \/ x = userName}}
      relationship ==
        UNION {Items(Hits("relationship", "interaction", r.interactions, queryEmbedding)) :
                 r \in {x \in Items(memory.relationships) :
                          \/ userName = NoUser
                          \/ x.userName = userName \/ x.botName = userName}}
      event ==
        Items(Hits("event", "general",
                   SelectSeq(memory.events,
                             LAMBDA e : userName = NoUser \/ Contains(e.participants, userName)),
                   queryEmbedding))
  IN personal \cup relationship \cup event

OutIds == {h.id : h \in Items(lastM.out)}

\* C22: a search returns at most limit hits, in non-increasing order of
\* similarity, and no memory that passes the filter and was left out is more
\* similar to the query than a returned hit.
C22_GlobalTopLimit ==
  lastM.op = "search" =>
    /\ Len(lastM.out) <= lastM.limit
    /\ \A i, j \in DOMAIN lastM.out :
         i < j => ~MoreSimilar(lastM.out[j].similarity, lastM.out[i].similarity)
    /\ \A c \in PassesFilter(lastM.userName) :
         c.id \notin OutIds =>
           \A h \in Items(lastM.out) : ~MoreSimilar(c.similarity, h.similarity)

\* C23: of two returned hits with the same similarity, the memory stored
\* earlier comes first.
C23_TiesByInsertionOrder ==
  lastM.op = "search" =>
    \A i, j \in DOMAIN lastM.out :
      (i < j /\ lastM.out[i].similarity = lastM.out[j].similarity)
        => lastM.out[i].timestamp <= lastM.out[j].timestamp

\* C24: a search without a user-name filter has the personal memories of
\* every user among its candidates: when the limit is not reached, each of
\* them is returned.
C24_NoFilterSearchesPersonal ==
  (/\ lastM.op = "search"
   /\ lastM.userName = NoUser
   /\ Len(lastM.out) < lastM.limit)
    => \A u \in Users : PersonalIds(u) \subseteq OutIds

(* ------------------------- conversation claims ------------------------- *)
\* the evaluation the last autoProcessConversation call worked on
LastEvaluation == lastM.answer.evaluation

BucketOf(m, userName, category) ==
  IF userName \in DOMAIN m.personal
  THEN CategoryArrayOf(m.personal[userName], category)
  ELSE <<>>

\* the interactions the last call added, each with the pair that holds it
NewInteractions ==
  UNION {{<<r.userName, r.botName, e>> :
            e \in {y \in Items(r.interactions) : y.id \in Items(lastM.stored)}} :
           r \in Items(memory.relationships)}

\* C25: when the evaluation succeeds and asks for storage, every extracted
\* fact is in the personal bucket of userName under the fact's category with
\* the fact's content, and exactly one interaction was added, in the bucket
\* of (userName, agentName), holding the summary and the sentiment.
C25_StoresFactsAndSummary ==
  (/\ lastM.op = "autoProcessConversation"
   /\ lastM.answer.kind = "json"
   /\ lastM.embeddingsUp
   /\ LastEvaluation.shouldStore
   /\ LastEvaluation.interactionSummary \notin {<<>>, EvaluationFailed})
    => /\ \A info \in Items(LastEvaluation.personalInfo) :
            \E e \in Items(BucketOf(memory, lastM.userName, info.category)) :
              e.content = info.content
       /\ \E x \in NewInteractions :
            /\ NewInteractions = {x}
            /\ x[1] = lastM.userName
            /\ x[2] = lastM.botName
            /\ x[3].content = LastEvaluation.interactionSummary
            /\ x[3].sentiment = LastEvaluation.sentiment

\* C26: when the model call fails or its answer cannot be parsed, the call
\* stores nothing, leaves this.memory and the file as they were, and settles
\* without a rejection.
C26_FailedEvaluationStoresNothing ==
  (lastM.op = "autoProcessConversation" /\ lastM.answer.kind # "json")
    => /\ lastM.stored = <<>>
       /\ memory = lastM.before
       /\ file = lastM.fileBefore
       /\ ~lastM.rejected
       /\ task.pc = "settled"

C26_Witness ==
  /\ lastM.op = "autoProcessConversation"
  /\ lastM.answer.kind = "rejected"
  /\ IsRecord(file)
  /\ memory.events # <<>>

\* C27: the step out of postProcess ends the run and leaves the call it
\* started pending; once the run has ended nothing changes its state,
\* whatever the detached call does; and the run gets from postProcess to its
\* end although nothing is assumed about when the detached call runs.
C27_ReplyDoesNotWait ==
  /\ [][(node = "postProcess" /\ lastG'.op = "postProcess")
          => /\ node' = "__end__"
             /\ state.userMessage # <<>> => task'.pc = "pending"]_vars
  /\ [][node = "__end__" => (node' = "__end__" /\ state' = state)]_vars
  /\ (node = "postProcess") ~> (node = "__end__")

C27_Witness ==
  /\ node = "__end__"
  /\ task.pc = "settled"
  /\ lastM.op = "autoProcessConversation"
  /\ lastM.caught
  /\ state.messages[Len(state.messages)].content = "answer"

\* C28: when the load of the record or the search fails while the turn
\* fetches its memory context, the context is empty and the run goes on to
\* processMessage.
C28_FailedContextIsEmpty ==
  (lastG.op = "loadMemoryContext" /\ (lastG.loadFailed \/ lastG.searchFailed))
    => /\ state.memoryContext = ""
       /\ lastG.goto = "processMessage"
       /\ node = "processMessage"

C28_Witness ==
  /\ lastG.op = "loadMemoryContext"
  /\ lastG.searchFailed
  /\ ~lastG.loadFailed
  /\ memory.events # <<>>

\* C30: initialize writes the empty record when the file does not exist;
\* when it exists, initialize leaves the file as it is, reads nothing and
\* leaves the manager not loaded, and the first operation after it reads
\* the file.
C30_InitializeIsLazy ==
  /\ lastG.op = "initialize" =>
       IF lastG.fileBefore = NoFile
       THEN file = EmptyMemory
       ELSE /\ file = lastG.fileBefore
            /\ ~memoryLoaded
            /\ memory = EmptyMemory
  /\ lastG.op = "loadMemoryContext" =>
       /\ lastG.read <=> file # EmptyMemory
       /\ (lastG.read /\ IsRecord(file)) => memory = cleanupOldMemories(file, clock)

C30_Witness ==
  /\ lastG.op = "loadMemoryContext"
  /\ lastG.read
  /\ IsRecord(file)
  /\ memory.events # <<>>

(* -------------------------- compression claim -------------------------- *)
Least(a, b) == IF a <= b THEN a ELSE b
Greatest(a, b) == IF a <= b THEN b ELSE a

\* C29: for an embedding v whose length L is a multiple of 8,
\* decompress(compress(v)) has the length L, equals v at every index
\* divisible by 8, lies between the two retained values at every index
\* between two retained indices, and repeats the last retained value after
\* the last retained index (decompressedOut holds eighths).
C29_RoundTrip ==
  (decompressedOut # <<>> /\ Len(embeddingIn) % 8 = 0) =>
    /\ Len(decompressedOut) = Len(embeddingIn)
    /\ \A n \in 1..Len(embeddingIn) :
         LET first == n - ((n - 1) % 8)
             next == first + 8
         IN IF n = first THEN decompressedOut[n] = 8 * embeddingIn[n]
            ELSE IF next <= Len(embeddingIn)
            THEN /\ decompressedOut[n] >= 8 * Least(embeddingIn[first], embeddingIn[next])
                 /\ decompressedOut[n] <= 8 * Greatest(embeddingIn[first], embeddingIn[next])
            ELSE decompressedOut[n] = 8 * embeddingIn[first]

C29_Witness ==
  /\ decompressedOut # <<>>
  /\ Len(embeddingIn) = 24
  /\ embeddingIn[1] < embeddingIn[9]
  /\ embeddingIn[9] > embeddingIn[17]
  /\ decompressedOut[2] # 8 * embeddingIn[2]

(* ------------------------------ event claim ---------------------------- *)
\* C38: whenever storeEvent returns an id rather than "duplicate", the event
\* with that id is in the event list when the call returns, also when the
\* list held 30 events before the call.
C38_StoredEventIsPresent ==
  (lastM.op = "storeEvent" /\ lastM.out # "duplicate")
    => \E e \in Items(memory.events) : e.id = lastM.out

(* ------------------------------ graph claim ---------------------------- *)
\* the runs of executeTools a run of the graph has made: each leaves one
\* tool message
ToolRuns(messages) == Cardinality({i \in DOMAIN messages : messages[i].type = "tool"})

\* C39: in one run of the graph processMessage routes to executeTools at
\* most 3 times; once toolCallCount has reached 3 a response that carries
\* tool calls goes to postProcess, and every run comes to an end (or fails
\* in a tool call that throws).
C39_ToolCallsBounded ==
  /\ [](ToolRuns(state.messages) + (IF node = "executeTools" THEN 1 ELSE 0) <= 3)
  /\ [][(node = "processMessage" /\ state.toolCallCount >= 3)
          => node' \in {"postProcess", "__end__"}]_vars
  /\ (node = "processMessage") ~> (node \in {"__end__", "failed"})

C39_Witness ==
  /\ node = "postProcess"
  /\ ToolRuns(state.messages) = 3
  /\ state.messages[Len(state.messages)].tool # "none"

(* ------------------------------- bot claim ----------------------------- *)
\* C40: when the first message of a chat is processed, the chat's entry with
\* its initialized store is registered before the member registration and
\* the message recording read it, however long the initialization and the
\* member lookup take: no message is dropped because the entry is missing.
C40_EntryRegisteredFirst ==
  \A i \in DOMAIN chatLog : chatLog[i].outcome # "thrown"

(* ----------------------------- cleanup claims -------------------------- *)
\* the age of a memory in days on the day of the load
AgeOf(e) == lastM.now - e.timestamp

\* C33: the cleanup removes exactly the events that are both older than 30
\* days and of importance below 4: every event newer than 30 days and every
\* event of importance 4 or more is kept.
C33_EventsOlderThan30Days ==
  lastM.op = "load" =>
    /\ \A e \in Items(file.events) :
         (AgeOf(e) < 30 \/ e.importance >= 4) => e \in Items(memory.events)
    /\ \A e \in Items(file.events) :
         (AgeOf(e) > 30 /\ e.importance < 4) => e \notin Items(memory.events)
    /\ Items(memory.events) \subseteq Items(file.events)

\* the entries of a bucket the claim lets the cleanup keep, and those it
\* must consider
MayStay(e) == AgeOf(e) <= 30 \/ CharLength(e.content) > 30
MustCount(e) == AgeOf(e) < 30 \/ CharLength(e.content) > 30

\* C34: the cleanup leaves a personal bucket of 5 or fewer entries as it is;
\* of a bucket of more than 5 entries it keeps the up-to-8 most recent of
\* the entries that are newer than 30 days or longer than 30 characters,
\* and no entry that is both older than 30 days and at most 30 characters.
C34_PersonalBuckets ==
  lastM.op = "load" =>
    \A u \in DOMAIN file.personal :
      \A c \in {"facts", "traits", "preferences", "history"} :
        LET before == file.personal[u][c]
            after == memory.personal[u][c]
        IN IF Len(before) <= 5 THEN after = before
           ELSE /\ Len(after) <= 8
                /\ Items(after) \subseteq Items(before)
                /\ \A e \in Items(after) : MayStay(e)
                /\ \A e \in Items(before) :
                     MustCount(e) =>
                       \/ e \in Items(after)
                       \/ /\ Len(after) = 8
                          /\ \A k \in Items(after) : k.timestamp >= e.timestamp
                /\ \A i, j \in DOMAIN after :
                     i < j => after[i].timestamp >= after[j].timestamp

(* ------------------------ claims about the calls ----------------------- *)
\* the calls on the store that have been made and have not returned
InFlight == {i \in DOMAIN ops : ops[i].pc # "done"}

\* the calls that have written the record and returned an id
Stored == {i \in DOMAIN ops : ops[i].out = "stored"}

C32_FailedLoadIsNotRetried ==
  /\ [][(io'.failed > io.failed)
          => /\ memory' = EmptyMemory
             /\ memoryLoaded'
             /\ ops'[lastM'.call].pc = "done"
             /\ ops'[lastM'.call].out = ""]_vars
  /\ [](io.failed > 0 => (memoryLoaded /\ io.reads = 1))

C32_Witness ==
  /\ io.failed = 1 /\ io.reads = 1
  /\ turn.n = 2
  /\ Stored # {}

\* C35: at most one call on the store of a chat is under way at any time.
C35_OneCallInFlight == Cardinality(InFlight) <= 1

\* the store call that took the JSON text of this.memory last
LastSaved == CHOOSE i \in Stored : \A j \in Stored : ops[j].savedAt <= ops[i].savedAt

\* the ids a record holds
IdsIn(m) ==
  {e.id : e \in Items(m.events)}
    \cup UNION {{e.id : e \in Items(m.personal[u][c])} :
                  u \in DOMAIN m.personal, c \in {"facts"}}
    \cup UNION {{e.id : e \in Items(r.interactions)} : r \in Items(m.relationships)}

\* C36: once every store call has returned, the file holds the memory as the
\* store call issued last left it, and no memory whose id a store call
\* returned is missing from it.
C36_WritesInIssueOrder ==
  (InFlight = {} /\ Stored # {})
    => /\ file = ops[LastSaved].snapshot
       /\ \A i \in Stored : ops[i].id \in IdsIn(file)

\* no two entries of the list are near-duplicates of each other
NoNearDuplicates(xs) ==
  \A i, j \in DOMAIN xs : i < j => ~DuplicateOf(xs[i].content, xs[j].content)

\* C37: in every reachable state, under any interleaving of the store calls,
\* no personal bucket and no event list holds two entries whose lower-cased
\* contents have a word-set Jaccard similarity above 0.8.
C37_NoNearDuplicates ==
  /\ NoNearDuplicates(memory.events)
  /\ \A u \in DOMAIN memory.personal :
       \A c \in DOMAIN memory.personal[u] : NoNearDuplicates(memory.personal[u][c])

====
